---- MODULE Spec2Model ----
(***************************************************************************)
(* State persistence layer of learn-langraph (src/shared/state_persistence)*)
(* modelled as a state machine: one driver instance (Cosmos DB, PostgreSQL *)
(* or SQL Server) over its backend store, driven by initialize, close,     *)
(* save_state, load_state, list_checkpoints and delete_state calls.        *)
(* With it: the factory create_state_persistence (factory.py), which picks *)
(* the driver from the connection string, and the document approval graph  *)
(* of labs/lab06-langgraph-stateful/solution/main.py, run node by node.    *)
(*                                                                         *)
(* Python values are encoded as follows:                                   *)
(*   str            a sequence of lexical units (characters; a keyword     *)
(*                  with its blanks is one unit), "" is <<>>               *)
(*   Optional[x]    None is <<>>, a value x is <<x>>                       *)
(*   dict           a sequence of <<key, value>> pairs in insertion order  *)
(*   datetime       a number of clock ticks                                *)
(***************************************************************************)
EXTENDS Bags, FiniteSets, Integers, Sequences, TLC

VARIABLES
    driver,        \* which BaseStatePersistence subclass the instance is
    store,         \* bag of documents (container) or rows (table) in the backend
    now,           \* datetime.utcnow(), in ticks
    last,          \* the last call: its arguments, what the thread held before it, what it returned
    first_insert,  \* per key, the clock value at which its present document was inserted (0: none)
    handle,        \* self.pool / self.client / self.engine: 0 (None), or the number of the pool, client or engine it refers to
    signal,        \* how the last call ended: "returned", or the exception it raised
    backend,       \* schema objects, and each pool, client or engine the instance made: "open" or "closed", and whether a close() / dispose() call reached one that was closed already
    peer,          \* a second instance, of another driver, given the same calls
    tasks,         \* the calls that run concurrently on the instance, per asyncio task
    factory,       \* create_state_persistence: the environment, the instances made, the last call
    workflow,      \* a run of the lab06 stateful workflow graph
    self_container, \* self.container of a Cosmos DB instance: 0 (None), or the number of the client that made it
    initializing,  \* the initialize() calls in progress: what each has yet to create
    deleting,      \* the Cosmos DB bulk deletes in progress: the items each has yet to delete
    paging         \* the Cosmos DB queries of load_state / list_checkpoints whose pages are being fetched

vars == <<driver, store, now, last, first_insert, handle, signal, backend, peer,
          tasks, factory, workflow, self_container, initializing, deleting, paging>>

----------------------------------------------------------------------------
(* Bounds *)

MaxTime == 2          \* the clock runs over 1..MaxTime
MaxLimit == 1         \* list_checkpoints limits run over 0..MaxLimit
TicksPerSecond == 2   \* clock ticks in one second (sub-second part of a timestamp)
MaxPools == 2         \* an instance opens at most MaxPools pools (clients, engines)
MaxTasks == 2         \* asyncio tasks that call the instance concurrently
MaxInstances == 2     \* instances create_state_persistence makes in one process

----------------------------------------------------------------------------
(* Python values *)

None == <<>>
Some(x) == <<x>>

\* truth value of a str or dict operand of `if x:` / `x or y`
Truthy(x) == Len(x) > 0

\* truth value of an Optional[str] / Optional[dict] operand
OptTruthy(o) == o # None /\ Truthy(o[1])

Drivers == {"cosmosdb", "postgresql", "sqlserver"}

\* thread ids callers use: a plain one, and the string  a' AND '1'='2
PlainThread == <<"a">>
QuotedThread == <<"a", "'", " AND ", "'", "1", "'", "=", "'", "2">>

ThreadIds == { PlainThread, QuotedThread }

\* two more thread ids: one that ends in the separator of the Cosmos item id,
\* and the string  a' OR '1'='1
UnderscoreThread == <<"a", "_">>
InjectedThread == <<"a", "'", " OR ", "'", "1", "'", "=", "'", "1">>

\* threads that are to be kept apart, and the keys saved in them: the first
\* two keys give the same Cosmos item id a__b, the last two are in one
\* thread (a listing of it with limit 1 takes two pages)
IsolatedThreads == { PlainThread, UnderscoreThread, InjectedThread }
IsolatedKeys == { <<PlainThread, <<"_", "b">> >>, <<UnderscoreThread, <<"b">> >>,
                  <<InjectedThread, <<"b">> >>, <<InjectedThread, <<"_", "b">> >> }
CheckpointIds == { <<>>, <<"b">>, <<"_", "b">> }

\* keys that callers save under
SaveKeys == { <<PlainThread, <<"b">> >>, <<PlainThread, <<"_", "b">> >>,
              <<QuotedThread, <<"b">> >> }

\* <<state, metadata>> pairs callers pass in: a workflow snapshot with no
\* metadata, with an empty mapping, and a later snapshot with an annotation
Payloads == { << << <<"step", "1">> >>, None >>,
              << << <<"step", "1">> >>, Some(<<>>) >>,
              << << <<"step", "2">> >>, Some(<< <<"user_id", "u">> >>) >> }

Limits == 0..MaxLimit

\* what is saved in the threads that are to be kept apart, and over the life
\* of an instance
IsolatedPayloads == { << << <<"step", "1">> >>, None >> }
LifecyclePayloads == { p \in Payloads : p[2] # Some(<<>>) }

\* the thread and the key that the calls over the life of an instance use
LifecycleThreads == { PlainThread }
LifecycleKeys == { <<PlainThread, <<"b">> >> }

----------------------------------------------------------------------------
(* json.dumps / json.loads on a flat mapping: the text is a token sequence *)

RECURSIVE DumpsItems(_)
DumpsItems(items) ==
    IF items = <<>> THEN <<>>
    ELSE IF Len(items) = 1 THEN <<items[1][1], ":", items[1][2]>>
    ELSE <<items[1][1], ":", items[1][2], ",">> \o DumpsItems(Tail(items))

json_dumps(d) == <<"{">> \o DumpsItems(d) \o <<"}">>

RECURSIVE LoadsItems(_)
LoadsItems(toks) ==
    IF Len(toks) < 3 THEN <<>>
    ELSE << <<toks[1], toks[3]>> >> \o
         (IF Len(toks) > 4 THEN LoadsItems(SubSeq(toks, 5, Len(toks))) ELSE <<>>)

json_loads(text) == LoadsItems(SubSeq(text, 2, Len(text) - 1))

----------------------------------------------------------------------------
(* datetime.isoformat / datetime.fromisoformat: the fractional part is     *)
(* left out of the text when it is zero                                    *)

isoformat(t) ==
    IF t % TicksPerSecond = 0 THEN <<t \div TicksPerSecond>>
    ELSE <<t \div TicksPerSecond, t % TicksPerSecond>>

fromisoformat(s) ==
    s[1] * TicksPerSecond + (IF Len(s) > 1 THEN s[2] ELSE 0)

\* string order of two timestamp texts (what ORDER BY on a string field uses)
RECURSIVE StrLess(_, _)
StrLess(a, b) ==
    IF a = <<>> THEN b # <<>>
    ELSE IF b = <<>> THEN FALSE
    ELSE IF Head(a) # Head(b) THEN Head(a) < Head(b)
    ELSE StrLess(Tail(a), Tail(b))

----------------------------------------------------------------------------
(* Bags of rows *)

BagFilter(b, P(_)) == [x \in {y \in DOMAIN b : P(y)} |-> b[x]]

RECURSIVE SumOver(_, _)
SumOver(S, b) ==
    IF S = {} THEN 0
    ELSE LET x == CHOOSE y \in S : TRUE IN b[x] + SumOver(S \ {x}, b)

BagMap(b, F(_)) ==
    [y \in {F(x) : x \in DOMAIN b} |-> SumOver({x \in DOMAIN b : F(x) = y}, b)]

\* every way of reading the bag out as a sequence in which no row comes
\* before a row that Before(_, _) puts strictly first
Orderings(b, Before(_, _)) ==
    LET n == BagCardinality(b) IN
    { s \in [1..n -> DOMAIN b] :
        /\ \A x \in DOMAIN b : Cardinality({i \in 1..n : s[i] = x}) = b[x]
        /\ \A i, j \in 1..n : i < j => ~Before(s[j], s[i]) }

Prefix(s, n) == SubSeq(s, 1, IF n < Len(s) THEN n ELSE Len(s))

----------------------------------------------------------------------------
(* StateDocument, and the outcome of a call: the store it leaves and what  *)
(* it returns                                                              *)

StateDocument(thread_id, checkpoint_id, state, metadata, created_at, updated_at) ==
    [thread_id |-> thread_id, checkpoint_id |-> checkpoint_id, state |-> state,
     metadata |-> metadata, created_at |-> created_at, updated_at |-> updated_at]

Outcome(st, ok, doc, docs) == [store |-> st, ok |-> ok, doc |-> doc, docs |-> docs]

----------------------------------------------------------------------------
(* Azure Cosmos DB: a container partitioned by /thread_id; an item is      *)
(* identified by its id within its partition                               *)

upsert_item(container, document) ==
    BagFilter(container,
              LAMBDA d : ~(d.thread_id = document.thread_id /\ d.id = document.id))
        (+) SetToBag({document})

\* the items read_item / delete_item address
ItemsById(container, item, partition_key) ==
    BagFilter(container, LAMBDA d : d.thread_id = partition_key /\ d.id = item)

\* the WHERE clause of f"... WHERE c.thread_id = '{thread_id}' ...": the
\* thread id is pasted between the quotes
where_thread_id(thread_id) == <<"c.thread_id", "=", "'">> \o thread_id \o <<"'">>

\* The query engine reading a WHERE clause for item d:
\*   condition   ::= conjunction [ " OR " condition ]
\*   conjunction ::= comparison [ " AND " conjunction ]
\*   comparison  ::= operand "=" operand
\*   operand     ::= "c.thread_id" | "'" units "'"
\* a result is [ok, val, next]; ok = FALSE is a syntax error
SyntaxError == [ok |-> FALSE, val |-> FALSE, next |-> 0]

RECURSIVE QuoteAt(_, _)
QuoteAt(text, i) ==
    IF i > Len(text) THEN 0
    ELSE IF text[i] = "'" THEN i
    ELSE QuoteAt(text, i + 1)

Operand(text, i, d) ==
    IF i > Len(text) THEN SyntaxError
    ELSE IF text[i] = "c.thread_id"
    THEN [ok |-> TRUE, val |-> d.thread_id, next |-> i + 1]
    ELSE IF text[i] = "'"
    THEN LET j == QuoteAt(text, i + 1)
         IN  IF j = 0 THEN SyntaxError
             ELSE [ok |-> TRUE, val |-> SubSeq(text, i + 1, j - 1), next |-> j + 1]
    ELSE SyntaxError

\* body(v), with v evaluated once
Bind(v, body(_)) == CHOOSE out \in {body(x) : x \in {v}} : TRUE

Comparison(text, i, d) ==
    Bind(Operand(text, i, d), LAMBDA l :
        IF ~l.ok \/ l.next > Len(text) THEN SyntaxError
        ELSE IF text[l.next] # "=" THEN SyntaxError
        ELSE Bind(Operand(text, l.next + 1, d), LAMBDA r :
                 IF ~r.ok THEN SyntaxError
                 ELSE [ok |-> TRUE, val |-> (l.val = r.val), next |-> r.next]))

RECURSIVE Conjunction(_, _, _)
Conjunction(text, i, d) ==
    Bind(Comparison(text, i, d), LAMBDA c :
        IF ~c.ok THEN SyntaxError
        ELSE IF c.next > Len(text) THEN c
        ELSE IF text[c.next] # " AND " THEN c
        ELSE Bind(Conjunction(text, c.next + 1, d), LAMBDA rest :
                 IF ~rest.ok THEN SyntaxError
                 ELSE [ok |-> TRUE, val |-> (c.val /\ rest.val), next |-> rest.next]))

RECURSIVE Condition(_, _, _)
Condition(text, i, d) ==
    Bind(Conjunction(text, i, d), LAMBDA c :
        IF ~c.ok THEN SyntaxError
        ELSE IF c.next > Len(text) THEN c
        ELSE IF text[c.next] # " OR " THEN SyntaxError
        ELSE Bind(Condition(text, c.next + 1, d), LAMBDA rest :
                 IF ~rest.ok THEN SyntaxError
                 ELSE [ok |-> TRUE, val |-> (c.val \/ rest.val), next |-> rest.next]))

\* the engine accepts the query text
query_accepted(where) == Condition(where, 1, [thread_id |-> <<>>]).ok

\* variant: the query is run across all partitions
query_items_cross_partition(container, where, partition_key) ==
    BagFilter(container, LAMBDA d : Condition(where, 1, d).val)

\* SELECT ... FROM c WHERE <where>, run within one partition
query_items(container, where, partition_key) ==
    BagFilter(container,
              LAMBDA d : d.thread_id = partition_key /\ Condition(where, 1, d).val)

\* ... ORDER BY c.created_at DESC, read to the end with no other call between
\* the page requests: every page is consumed, all items come back
query_items_ordered(container, where, partition_key) ==
    Orderings(query_items(container, where, partition_key),
              LAMBDA x, y : StrLess(y.created_at, x.created_at))

CosmosDB_document(thread_id, checkpoint_id, state, metadata) ==
    [id |-> thread_id \o <<"_">> \o checkpoint_id,
     thread_id |-> thread_id,
     checkpoint_id |-> checkpoint_id,
     state |-> state,
     metadata |-> IF OptTruthy(metadata) THEN metadata[1] ELSE <<>>,
     created_at |-> isoformat(now),
     updated_at |-> isoformat(now)]

CosmosDB_StateDocument(document) ==
    StateDocument(document.thread_id, document.checkpoint_id, document.state,
                  Some(document.metadata),
                  fromisoformat(document.created_at),
                  fromisoformat(document.updated_at))

CosmosDB_save_state(thread_id, checkpoint_id, state, metadata, fail) ==
    IF fail THEN {Outcome(store, FALSE, None, <<>>)}
    ELSE {Outcome(upsert_item(store,
                      CosmosDB_document(thread_id, checkpoint_id, state, metadata)),
                  TRUE, None, <<>>)}

\* load_state and list_checkpoints as a caller sees them who makes no other
\* call while they run (the pages of their query are all read from the store
\* as it is)
CosmosDB_load_state(thread_id, checkpoint_id, fail) ==
    IF fail THEN {Outcome(store, FALSE, None, <<>>)}
    ELSE IF OptTruthy(checkpoint_id)
    THEN LET found == ItemsById(store, thread_id \o <<"_">> \o checkpoint_id[1],
                                thread_id)
         IN  IF found = EmptyBag THEN {Outcome(store, TRUE, None, <<>>)}
             ELSE {Outcome(store, TRUE, Some(CosmosDB_StateDocument(d)), <<>>) :
                       d \in DOMAIN found}
    ELSE IF ~query_accepted(where_thread_id(thread_id))
    THEN {Outcome(store, FALSE, None, <<>>)}
    ELSE {IF items = <<>> THEN Outcome(store, TRUE, None, <<>>)
          ELSE Outcome(store, TRUE, Some(CosmosDB_StateDocument(items[1])), <<>>) :
              items \in query_items_ordered(store, where_thread_id(thread_id),
                                            thread_id)}

CosmosDB_list_checkpoints(thread_id, limit, fail) ==
    IF fail \/ ~query_accepted(where_thread_id(thread_id))
    THEN {Outcome(store, FALSE, None, <<>>)}
    ELSE {Outcome(store, TRUE, None,
                  [i \in 1..Len(items) |-> CosmosDB_StateDocument(items[i])]) :
              items \in query_items_ordered(store, where_thread_id(thread_id),
                                            thread_id)}

CosmosDB_delete_state(thread_id, checkpoint_id, fail) ==
    IF OptTruthy(checkpoint_id)
    THEN LET found == ItemsById(store, thread_id \o <<"_">> \o checkpoint_id[1],
                                thread_id)
         IN  IF fail \/ found = EmptyBag
             THEN {Outcome(store, FALSE, None, <<>>)}
             ELSE {Outcome(store (-) found, TRUE, None, <<>>)}
    ELSE IF ~query_accepted(where_thread_id(thread_id))
    THEN {Outcome(store, FALSE, None, <<>>)}
    ELSE LET items == query_items(store, where_thread_id(thread_id), thread_id)
         IN  IF fail THEN {Outcome(store, FALSE, None, <<>>)}
             ELSE {Outcome(store (-) items, TRUE, None, <<>>)}

----------------------------------------------------------------------------
(* Relational rows, shared by the PostgreSQL and SQL Server tables         *)

Row(thread_id, checkpoint_id, state, metadata, created_at, updated_at) ==
    [thread_id |-> thread_id, checkpoint_id |-> checkpoint_id, state |-> state,
     metadata |-> metadata, created_at |-> created_at, updated_at |-> updated_at]

\* WHERE thread_id = .. AND checkpoint_id = ..
WhereKey(table, thread_id, checkpoint_id) ==
    BagFilter(table,
              LAMBDA r : r.thread_id = thread_id /\ r.checkpoint_id = checkpoint_id)

\* WHERE thread_id = ..
WhereThread(table, thread_id) ==
    BagFilter(table, LAMBDA r : r.thread_id = thread_id)

\* ... ORDER BY created_at DESC
OrderByCreatedDesc(rows) ==
    Orderings(rows, LAMBDA x, y : x.created_at > y.created_at)

\* a result set in no stated order
AnyOrder(rows) == Orderings(rows, LAMBDA x, y : FALSE)

----------------------------------------------------------------------------
(* PostgreSQL *)

\* variant: a plain INSERT, the ON CONFLICT clause (and the unique constraint
\* behind it) left out
insert_without_conflict_clause(table, row) == table (+) SetToBag({row})

\* INSERT ... ON CONFLICT (thread_id, checkpoint_id) DO UPDATE SET
\*   state = EXCLUDED.state, metadata = EXCLUDED.metadata,
\*   updated_at = EXCLUDED.updated_at
insert_on_conflict_update(table, row) ==
    IF WhereKey(table, row.thread_id, row.checkpoint_id) # EmptyBag
    THEN BagMap(table,
                LAMBDA r : IF r.thread_id = row.thread_id
                              /\ r.checkpoint_id = row.checkpoint_id
                           THEN [r EXCEPT !.state = row.state,
                                          !.metadata = row.metadata,
                                          !.updated_at = row.updated_at]
                           ELSE r)
    ELSE table (+) SetToBag({row})

PostgreSQL_StateDocument(row) ==
    StateDocument(row.thread_id, row.checkpoint_id, json_loads(row.state),
                  IF OptTruthy(row.metadata) THEN Some(json_loads(row.metadata[1]))
                  ELSE row.metadata,
                  row.created_at, row.updated_at)

PostgreSQL_save_state(thread_id, checkpoint_id, state, metadata, fail) ==
    IF fail THEN {Outcome(store, FALSE, None, <<>>)}
    ELSE {Outcome(insert_on_conflict_update(store,
                      Row(thread_id, checkpoint_id, json_dumps(state),
                          IF OptTruthy(metadata) THEN Some(json_dumps(metadata[1]))
                          ELSE None,
                          now, now)),
                  TRUE, None, <<>>)}

PostgreSQL_load_state(thread_id, checkpoint_id, fail) ==
    IF fail THEN {Outcome(store, FALSE, None, <<>>)}
    ELSE LET results == IF OptTruthy(checkpoint_id)
                        THEN AnyOrder(WhereKey(store, thread_id, checkpoint_id[1]))
                        ELSE OrderByCreatedDesc(WhereThread(store, thread_id))
         IN  {IF rows = <<>> THEN Outcome(store, TRUE, None, <<>>)
              ELSE Outcome(store, TRUE, Some(PostgreSQL_StateDocument(rows[1])), <<>>) :
                  rows \in results}

PostgreSQL_list_checkpoints(thread_id, limit, fail) ==
    IF fail THEN {Outcome(store, FALSE, None, <<>>)}
    ELSE {Outcome(store, TRUE, None,
                  [i \in 1..Len(Prefix(rows, limit)) |->
                       PostgreSQL_StateDocument(rows[i])]) :
              rows \in OrderByCreatedDesc(WhereThread(store, thread_id))}

PostgreSQL_delete_state(thread_id, checkpoint_id, fail) ==
    IF fail THEN {Outcome(store, FALSE, None, <<>>)}
    ELSE IF OptTruthy(checkpoint_id)
    THEN {Outcome(store (-) WhereKey(store, thread_id, checkpoint_id[1]),
                  TRUE, None, <<>>)}
    ELSE {Outcome(store (-) WhereThread(store, thread_id), TRUE, None, <<>>)}

----------------------------------------------------------------------------
(* SQL Server *)

\* MERGE target USING source ON (thread_id, checkpoint_id)
\*   WHEN MATCHED THEN UPDATE SET state, metadata, updated_at
\*   WHEN NOT MATCHED THEN INSERT (...)
merge(table, row) ==
    LET matched == WhereKey(table, row.thread_id, row.checkpoint_id)
    IN  IF matched = EmptyBag THEN table (+) SetToBag({row})
        ELSE BagMap(table,
                    LAMBDA r : IF r \in DOMAIN matched
                               THEN [r EXCEPT !.state = row.state,
                                              !.metadata = row.metadata,
                                              !.updated_at = row.updated_at]
                               ELSE r)

SQLServer_StateDocument(row) ==
    StateDocument(row.thread_id, row.checkpoint_id, json_loads(row.state),
                  IF OptTruthy(row.metadata) THEN Some(json_loads(row.metadata[1]))
                  ELSE None,
                  row.created_at, row.updated_at)

SQLServer_save_state(thread_id, checkpoint_id, state, metadata, fail) ==
    LET state_json == json_dumps(state)
        metadata_json == IF OptTruthy(metadata) THEN Some(json_dumps(metadata[1]))
                         ELSE None
    IN  IF fail THEN {Outcome(store, FALSE, None, <<>>)}
        ELSE {Outcome(merge(store, Row(thread_id, checkpoint_id, state_json,
                                       metadata_json, now, now)),
                      TRUE, None, <<>>)}

SQLServer_load_state(thread_id, checkpoint_id, fail) ==
    IF fail THEN {Outcome(store, FALSE, None, <<>>)}
    ELSE LET results == IF OptTruthy(checkpoint_id)
                        THEN AnyOrder(WhereKey(store, thread_id, checkpoint_id[1]))
                        ELSE {Prefix(rows, 1) :
                                  rows \in OrderByCreatedDesc(WhereThread(store, thread_id))}
         IN  {IF rows = <<>> THEN Outcome(store, TRUE, None, <<>>)
              ELSE Outcome(store, TRUE, Some(SQLServer_StateDocument(rows[1])), <<>>) :
                  rows \in results}

\* SELECT TOP :limit ...: TOP without parentheses takes a literal only, so
\* with the bound parameter the server rejects the statement, whatever the
\* table holds; the except clause prints the error and returns []
SQLServer_list_checkpoints(thread_id, limit, fail) ==
    {Outcome(store, FALSE, None, <<>>)}

SQLServer_delete_state(thread_id, checkpoint_id, fail) ==
    IF fail THEN {Outcome(store, FALSE, None, <<>>)}
    ELSE IF OptTruthy(checkpoint_id)
    THEN {Outcome(store (-) WhereKey(store, thread_id, checkpoint_id[1]),
                  TRUE, None, <<>>)}
    ELSE {Outcome(store (-) WhereThread(store, thread_id), TRUE, None, <<>>)}

----------------------------------------------------------------------------
(* The driver instance: dispatch on the subclass create_state_persistence  *)
(* returned                                                                *)

save_state_outcomes(thread_id, checkpoint_id, state, metadata, fail) ==
    CASE driver = "cosmosdb" ->
             CosmosDB_save_state(thread_id, checkpoint_id, state, metadata, fail)
      [] driver = "postgresql" ->
             PostgreSQL_save_state(thread_id, checkpoint_id, state, metadata, fail)
      [] driver = "sqlserver" ->
             SQLServer_save_state(thread_id, checkpoint_id, state, metadata, fail)

load_state_outcomes(thread_id, checkpoint_id, fail) ==
    CASE driver = "cosmosdb" -> CosmosDB_load_state(thread_id, checkpoint_id, fail)
      [] driver = "postgresql" -> PostgreSQL_load_state(thread_id, checkpoint_id, fail)
      [] driver = "sqlserver" -> SQLServer_load_state(thread_id, checkpoint_id, fail)

list_checkpoints_outcomes(thread_id, limit, fail) ==
    CASE driver = "cosmosdb" -> CosmosDB_list_checkpoints(thread_id, limit, fail)
      [] driver = "postgresql" -> PostgreSQL_list_checkpoints(thread_id, limit, fail)
      [] driver = "sqlserver" -> SQLServer_list_checkpoints(thread_id, limit, fail)

delete_state_outcomes(thread_id, checkpoint_id, fail) ==
    CASE driver = "cosmosdb" -> CosmosDB_delete_state(thread_id, checkpoint_id, fail)
      [] driver = "postgresql" -> PostgreSQL_delete_state(thread_id, checkpoint_id, fail)
      [] driver = "sqlserver" -> SQLServer_delete_state(thread_id, checkpoint_id, fail)

\* the documents stored under a natural key, and under a thread
DocsOfKey(st, thread_id, checkpoint_id) ==
    BagFilter(st, LAMBDA d : d.thread_id = thread_id /\ d.checkpoint_id = checkpoint_id)

DocsOfThread(st, thread_id) ==
    BagFilter(st, LAMBDA d : d.thread_id = thread_id)

\* the caller's record of when the document now under each key was first inserted
Inserted(st) ==
    [k \in SaveKeys |->
        IF DocsOfKey(st, k[1], k[2]) = EmptyBag THEN 0
        ELSE IF DocsOfKey(store, k[1], k[2]) = EmptyBag THEN now
        ELSE first_insert[k]]

\* the checkpoint ids a thread holds
CheckpointsOf(st, thread_id) ==
    {d.checkpoint_id : d \in DOMAIN DocsOfThread(st, thread_id)}

\* the state of the k-th pool / client / engine the instance made: "open"
\* from its making until it is closed or disposed, "closed" then; None
\* (k = 0) is no object
state_of(k) == IF k = 0 THEN "none" ELSE backend.clients[k]

Call(op, thread_id, checkpoint_id, state, metadata, limit, fail, out) ==
    [op |-> op, thread_id |-> thread_id, checkpoint_id |-> checkpoint_id,
     state |-> state, metadata |-> metadata, limit |-> limit, fail |-> fail,
     prior |-> CheckpointsOf(store, thread_id), handle |-> state_of(handle),
     ok |-> out.ok, doc |-> out.doc, docs |-> out.docs]

NoCall ==
    [op |-> "none", thread_id |-> <<>>, checkpoint_id |-> None,
     state |-> <<>>, metadata |-> None, limit |-> 0, fail |-> FALSE,
     prior |-> {}, handle |-> "none", ok |-> FALSE, doc |-> None, docs |-> <<>>]

\* a request of a call that more requests follow: the call has not returned
Request(op, thread_id) == [NoCall EXCEPT !.op = op, !.thread_id = thread_id]

----------------------------------------------------------------------------
(* Lifecycle: construction, initialize(), close() *)

\* the backend as __init__ leaves it: nothing created yet, no pool made
Constructed == [schema |-> EmptyBag, clients |-> <<>>, reclosed |-> FALSE]

\* CREATE <object>: a second copy stands for the statement's "already
\* exists" error
create(schema, object) == schema (+) SetToBag({object})

\* some CREATE statement met an object that exists
AlreadyExists(schema) == \E object \in DOMAIN schema : schema[object] > 1

\* CREATE <object> IF NOT EXISTS / create_..._if_not_exists
create_if_not_exists(schema, object) ==
    IF BagIn(object, schema) THEN schema ELSE create(schema, object)

\* CREATE TABLE ... UNIQUE(thread_id, checkpoint_id): the table and its constraint
create_table(schema) == create(create(schema, "table"), "unique")

CosmosDB_initialize_schema(schema) ==
    create_if_not_exists(create_if_not_exists(schema, "database"), "container")

\* variant: the indexes are created without IF NOT EXISTS
PostgreSQL_initialize_schema_plain_index(schema) ==
    LET t == IF BagIn("table", schema) THEN schema ELSE create_table(schema)
    IN  create(create(t, "idx_thread_id"), "idx_created_at")

PostgreSQL_initialize_schema(schema) ==
    LET t == IF BagIn("table", schema) THEN schema ELSE create_table(schema)
    IN  create_if_not_exists(create_if_not_exists(t, "idx_thread_id"),
                             "idx_created_at")

SQLServer_initialize_schema(schema) ==
    IF BagIn("table", schema) THEN schema
    ELSE create(create(create_table(schema), "idx_thread_id"), "idx_created_at")

initialize_schema(schema) ==
    CASE driver = "cosmosdb"   -> CosmosDB_initialize_schema(schema)
      [] driver = "postgresql" -> PostgreSQL_initialize_schema(schema)
      [] driver = "sqlserver"  -> SQLServer_initialize_schema(schema)

\* the backend after a first initialize(): a pool / client / engine made and
\* open, and the schema statements run
Initialized(b) ==
    [b EXCEPT !.schema = initialize_schema(b.schema),
              !.clients = Append(b.clients, "open")]

\* the object a save / load / list / delete call makes its request through:
\* self.pool, the engine self.async_session was made for (initialize() sets
\* both without an await in between), or the client that made
\* self.container, which need not be the one self.client refers to now
requester == IF driver = "cosmosdb" THEN self_container ELSE handle

\* a request through the k-th object reaches the backend: it is open, or it
\* is a disposed SQLAlchemy engine (which opens a new pool on use) or a
\* closed Cosmos client whose transport reopens its session
Reachable(k) ==
    \/ state_of(k) = "open"
    \/ state_of(k) = "closed" /\ driver \in {"sqlserver", "cosmosdb"}

\* a call can make its request
Usable == Reachable(requester)

\* the backend after a request through the k-th object reached it: a closed
\* engine or client is open again
Reached(k) ==
    IF state_of(k) = "closed" THEN [backend EXCEPT !.clients[k] = "open"]
    ELSE backend

\* what a call does when it cannot reach the backend: the exception raised
\* inside the handler's try block
unusable_exception ==
    CASE driver = "cosmosdb" /\ self_container = 0            -> "AttributeError"
      [] driver = "cosmosdb" /\ self_container # 0            -> "ValueError"
      [] driver = "postgresql" /\ state_of(handle) = "none"   -> "AttributeError"
      [] driver = "postgresql" /\ state_of(handle) = "closed" -> "InterfaceError"
      [] driver = "sqlserver" /\ state_of(handle) = "none"    -> "TypeError"

\* a request through the k-th object does not reach the backend: there is no
\* object, or a closed pool or a closed Cosmos client refuses the request
Unreachable(k) ==
    \/ state_of(k) = "none"
    \/ state_of(k) = "closed" /\ driver \in {"postgresql", "cosmosdb"}

\* a call raises before it has made a request
Unusable == Unreachable(requester)

\* the request of a call fails: the backend fails it, or it names a table
\* that initialize() has yet to create
Fails(fail) == fail \/ (driver # "cosmosdb" /\ ~BagIn("table", backend.schema))

\* a Cosmos DB delete_state(thread_id) whose query has returned: the ids of
\* the items it has yet to delete, and the checkpoints the query found
\* no loop to run: the call is over with its one request
NoBulkDelete ==
    [thread_id |-> <<>>, checkpoint_id |-> None, items |-> {}, removed |-> FALSE,
     prior |-> {}]

\* the asyncio tasks that share the instance are MaxTasks: a call can start
\* while fewer of them are inside an initialize(), a bulk delete or a query
\* read page by page. While a query is being read or the loop of a bulk
\* delete runs, the other tasks get one call in between two of its requests
\* (they run that far ahead of it, which bounds the interleavings explored)
Free ==
    /\ BagCardinality(initializing) + BagCardinality(deleting)
        + BagCardinality(paging) < MaxTasks
    /\ (paging # EmptyBag \/ deleting # EmptyBag)
          => last.op \in {"query_items", "delete_item"}

\* `[item async for item in self.container.query_items(...,
\* max_item_count=n)]` awaits one request per page of the query, with the
\* calls of other tasks in between: load_state(thread_id) asks for pages of
\* one item, list_checkpoints(thread_id, limit) for pages of `limit` items.
\* `items` are the items the pages so far returned, `prior` the checkpoints
\* the thread held when the call began, `checkpoint_id` the argument the
\* call was made with (None or '': both take the query branch)
Paging(op, thread_id, checkpoint_id, limit) ==
    [op |-> op, thread_id |-> thread_id, checkpoint_id |-> checkpoint_id,
     limit |-> limit, items |-> <<>>,
     prior |-> CheckpointsOf(store, thread_id)]

\* the call reads a Cosmos DB query page by page (the query of a bulk delete
\* sets no max_item_count: its items come in one page of the service's size)
Paged(op, thread_id, checkpoint_id) ==
    /\ driver = "cosmosdb"
    /\ op \in {"load_state", "list_checkpoints"}
    /\ ~OptTruthy(checkpoint_id)
    /\ query_accepted(where_thread_id(thread_id))

max_item_count(q) == IF q.op = "load_state" THEN 1 ELSE q.limit

\* the items the query has yet to return, the store being as it is now: all
\* it selects on the first request; on a later one, which continues after
\* the last item returned, the items not returned so far whose created_at is
\* not above that of the last item
Remaining(q) ==
    LET found == query_items(store, where_thread_id(q.thread_id), q.thread_id)
    IN  IF q.items = <<>> THEN found
        ELSE BagFilter(found, LAMBDA d :
                 /\ \A i \in 1..Len(q.items) : q.items[i].id # d.id
                 /\ ~StrLess(q.items[Len(q.items)].created_at, d.created_at))

\* what a page request can return: the items so far followed by those of the
\* page (ORDER BY c.created_at DESC; max_item_count of them at most, and as
\* many as the service likes when max_item_count is 0), and whether the
\* query is read to its end. After a page that is full the service may hand
\* out a continuation though nothing remains: one more request follows
next_page(q) ==
    LET remaining == Remaining(q)
        n == BagCardinality(remaining)
        m == max_item_count(q)
    IN  UNION { { [items |-> q.items \o Prefix(o, size), over |-> over] :
                    o \in Orderings(remaining,
                                    LAMBDA x, y : StrLess(y.created_at, x.created_at)),
                    over \in {b \in BOOLEAN :
                                 IF size < n THEN ~b ELSE b \/ (m > 0 /\ n = m)} }
                : size \in (IF m > 0 THEN {m} ELSE 1..(IF n > 0 THEN n ELSE 1)) }

\* what the handler returns once its query is read to the end: load_state the
\* first item or None, list_checkpoints every item
paged_result(q, items) ==
    IF q.op = "load_state"
    THEN Outcome(store, TRUE,
                 IF items = <<>> THEN None
                 ELSE Some(CosmosDB_StateDocument(items[1])), <<>>)
    ELSE Outcome(store, TRUE, None,
                 [i \in 1..Len(items) |-> CosmosDB_StateDocument(items[i])])

\* a Cosmos DB bulk delete after its query: the ids of the items the query
\* returned the loop has yet to delete, and whether it has deleted one;
\* `checkpoint_id` is the argument the call was made with (None or '': both
\* take the bulk branch), `prior` the checkpoints the thread held when the
\* call began
BulkDelete(thread_id, checkpoint_id) ==
    LET items == query_items(store, where_thread_id(thread_id), thread_id)
    IN  [thread_id |-> thread_id, checkpoint_id |-> checkpoint_id,
         items |-> {d.id : d \in DOMAIN items},
         removed |-> FALSE,
         prior |-> CheckpointsOf(store, thread_id)]

\* the statement an initialize() call runs for a schema object: the Cosmos DB
\* driver creates the database and the container in two requests, the others
\* run all their statements in one
create_object(schema, object) ==
    IF driver = "cosmosdb" THEN create_if_not_exists(schema, object)
    ELSE initialize_schema(schema)

\* the handler's except clause: Cosmos catches CosmosHttpResponseError only,
\* PostgreSQL and SQL Server catch Exception, which CancelledError (a
\* BaseException) is not
Caught(exception) ==
    CASE driver = "cosmosdb" -> exception = "CosmosHttpResponseError"
      [] OTHER -> exception \notin {"CancelledError"}

----------------------------------------------------------------------------
(* Two instances of different drivers given the same calls *)

\* no second instance
NoPeer ==
    [driver |-> "none", store |-> EmptyBag, turn |-> "first",
     observed |-> <<>>, agree |-> TRUE]

\* what a caller can see of a returned StateDocument
ObservedDocument(d) ==
    [thread_id |-> d.thread_id, checkpoint_id |-> d.checkpoint_id,
     state |-> d.state, metadata |-> d.metadata,
     updated_after_created |-> d.created_at < d.updated_at]

\* what a caller can see of a call's return value: save_state and
\* delete_state return a boolean; load_state returns a document or None and
\* list_checkpoints a list, also when the request failed (the except clause
\* prints and returns None / []), so that whether it failed is not in what
\* they return
Observation(op, out) ==
    [ok |-> IF op \in {"save_state", "delete_state"} THEN out.ok ELSE TRUE,
     doc |-> IF out.doc = None THEN None ELSE Some(ObservedDocument(out.doc[1])),
     docs |-> [i \in 1..Len(out.docs) |-> ObservedDocument(out.docs[i])],
     newer |-> {ij \in (1..Len(out.docs)) \X (1..Len(out.docs)) :
                  out.docs[ij[1]].created_at > out.docs[ij[2]].created_at}]

\* the calls a caller makes, as records of their arguments
Calls(op) ==
    CASE op = "save_state" ->
           {[op |-> op, thread_id |-> k[1], checkpoint_id |-> Some(k[2]),
             state |-> p[1], metadata |-> p[2], limit |-> 0] :
                k \in SaveKeys, p \in Payloads}
      [] op = "list_checkpoints" ->
           {[op |-> op, thread_id |-> t, checkpoint_id |-> None,
             state |-> <<>>, metadata |-> None, limit |-> n] :
                t \in ThreadIds, n \in Limits}
      [] OTHER ->
           {[op |-> op, thread_id |-> t, checkpoint_id |-> c,
             state |-> <<>>, metadata |-> None, limit |-> 0] :
                t \in ThreadIds, c \in {None} \cup {Some(x) : x \in CheckpointIds}}

\* the outcomes of a call on the instance at hand, its backend answering
outcomes(c) ==
    CASE c.op = "save_state" ->
           save_state_outcomes(c.thread_id, c.checkpoint_id[1], c.state, c.metadata, FALSE)
      [] c.op = "load_state" ->
           load_state_outcomes(c.thread_id, c.checkpoint_id, FALSE)
      [] c.op = "list_checkpoints" ->
           list_checkpoints_outcomes(c.thread_id, c.limit, FALSE)
      [] c.op = "delete_state" ->
           delete_state_outcomes(c.thread_id, c.checkpoint_id, FALSE)

----------------------------------------------------------------------------
(* Calls that run concurrently: each handler awaits its backend request and *)
(* the release of its connection, with other tasks running at each await   *)

Tasks == 1..MaxTasks

\* a task that is in no call
IdleTask ==
    [pc |-> "idle", call |-> [op |-> "none"], conn |-> FALSE, acquired |-> FALSE,
     background |-> FALSE, items |-> <<>>,
     matched |-> FALSE, overlapped |-> FALSE, latest |-> FALSE,
     ok |-> FALSE, signal |-> "returned"]

\* the calls the concurrent tasks make: all on one checkpoint of one thread,
\* saves of two different states
TaskCalls(op) ==
    {c \in Calls(op) : /\ c.thread_id = PlainThread
                       /\ IF op = "list_checkpoints" THEN c.limit = MaxLimit
                          ELSE c.checkpoint_id = Some(<<"b">>)
                       /\ c.metadata # Some(<<>>)}

\* what is kept of a task's call once it is over or cancelled: the arguments
\* and the result of a save_state that returned (concurrent saves are
\* compared); of any other call, the connection it acquired and still holds
Finished(t, pc) ==
    IF pc = "returned" /\ t.call.op = "save_state" THEN t
    ELSE [IdleTask EXCEPT !.conn = t.conn, !.acquired = t.acquired]

\* the task is inside save_state, at one of its awaits
Saving(t) ==
    /\ t.pc \in {"in_flight", "matched", "carried_out", "cancelling"}
    /\ t.call.op = "save_state"

\* the task is inside a handler, at one of its awaits: the request sent
\* ("in_flight", "matched"), the backend having carried it out
\* ("carried_out"), or CancelledError on its way out of the handler
\* ("cancelling")
InFlight(t) == t.pc \in {"in_flight", "matched", "carried_out", "cancelling"}

\* `async with self.pool.acquire()` / `async with self.async_session()` hold a
\* connection for the request; the Cosmos handlers acquire nothing
AcquiresConnection == driver \in {"postgresql", "sqlserver"}

\* connections checked out of the pool: those the calls under way hold, and
\* those whose release runs in the background
CheckedOut ==
    Cardinality({i \in Tasks : tasks[i].conn})
        + Cardinality({i \in Tasks : tasks[i].background})

\* the MERGE of this task found no row and another session has inserted the
\* key since: its INSERT violates the UNIQUE constraint
MergeCollides(t) ==
    /\ driver = "sqlserver" /\ t.call.op = "save_state" /\ ~t.matched
    /\ DocsOfKey(store, t.call.thread_id, t.call.checkpoint_id[1]) # EmptyBag

\* the outcomes of the request the task awaits
task_outcomes(t) ==
    IF MergeCollides(t)
    THEN save_state_outcomes(t.call.thread_id, t.call.checkpoint_id[1],
                             t.call.state, t.call.metadata, TRUE)
    ELSE outcomes(t.call)

----------------------------------------------------------------------------
(* create_state_persistence (factory.py). Connection strings are read      *)
(* character by character: here a str is the sequence of its characters    *)

\* characters beyond ASCII are written by their code points
KelvinSign == "U+212A"
CapitalEAcute == "U+00C9"
SmallEAcute == "U+00E9"
CapitalIDotAbove == "U+0130"
CombiningDotAbove == "U+0307"

\* the cased characters and what str.lower() makes of each: the letters A-Z,
\* and beyond them the Kelvin sign (k), E with acute, and I with dot above,
\* which becomes two characters
LowerCase ==
    [A |-> <<"a">>, B |-> <<"b">>, C |-> <<"c">>, D |-> <<"d">>, E |-> <<"e">>,
     F |-> <<"f">>, G |-> <<"g">>, H |-> <<"h">>, I |-> <<"i">>, J |-> <<"j">>,
     K |-> <<"k">>, L |-> <<"l">>, M |-> <<"m">>, N |-> <<"n">>, O |-> <<"o">>,
     P |-> <<"p">>, Q |-> <<"q">>, R |-> <<"r">>, S |-> <<"s">>, T |-> <<"t">>,
     U |-> <<"u">>, V |-> <<"v">>, W |-> <<"w">>, X |-> <<"x">>, Y |-> <<"y">>,
     Z |-> <<"z">>]
    @@ (KelvinSign :> <<"k">>)
    @@ (CapitalEAcute :> <<SmallEAcute>>)
    @@ (CapitalIDotAbove :> <<"i", CombiningDotAbove>>)
UpperCase == DOMAIN LowerCase

\* str.lower() of one character
lower_char(c) == IF c \in UpperCase THEN LowerCase[c] ELSE <<c>>

\* str.lower()
RECURSIVE lower(_)
lower(s) == IF s = <<>> THEN <<>> ELSE lower_char(Head(s)) \o lower(Tail(s))

\* s.startswith(prefix)
startswith(s, prefix) ==
    \E t \in {s} : Len(t) >= Len(prefix) /\ SubSeq(t, 1, Len(prefix)) = prefix

\* sub in s
contains(s, sub) ==
    \E t \in {s} :
        \E i \in 1..(Len(t) - Len(sub) + 1) : SubSeq(t, i, i + Len(sub) - 1) = sub

\* position of the first sep in s from i on, 0 if there is none
RECURSIVE find(_, _, _)
find(s, sep, i) ==
    IF i > Len(s) THEN 0
    ELSE IF s[i] = sep THEN i
    ELSE find(s, sep, i + 1)

\* s.split(sep), for a separator of one character
RECURSIVE split(_, _)
split(s, sep) ==
    LET i == find(s, sep, 1)
    IN  IF i = 0 THEN <<s>>
        ELSE <<SubSeq(s, 1, i - 1)>> \o split(SubSeq(s, i + 1, Len(s)), sep)

\* part.split('=', 1)[1], for a part that holds an '='
after_equals(part) == SubSeq(part, find(part, "=", 1) + 1, Len(part))

\* the literals the factory and the Cosmos constructor look for
accountendpoint == <<"a", "c", "c", "o", "u", "n", "t", "e", "n", "d", "p", "o", "i", "n",
      "t">>
accountkey == <<"a", "c", "c", "o", "u", "n", "t", "k", "e", "y">>
postgresql_scheme == <<"p", "o", "s", "t", "g", "r", "e", "s", "q", "l", ":", "/", "/">>
postgres_scheme == <<"p", "o", "s", "t", "g", "r", "e", "s", ":", "/", "/">>
mssql == <<"m", "s", "s", "q", "l">>
mssql_pyodbc_scheme ==
    <<"m", "s", "s", "q", "l", "+", "p", "y", "o", "d", "b", "c", ":", "/", "/">>
sqlserver == <<"s", "q", "l", "s", "e", "r", "v", "e", "r">>
AccountEndpoint_eq ==
    <<"A", "c", "c", "o", "u", "n", "t", "E", "n", "d", "p", "o", "i", "n",
      "t", "=">>
AccountKey_eq == <<"A", "c", "c", "o", "u", "n", "t", "K", "e", "y", "=">>

\* the connection strings callers and the environment supply
PostgreSQLUrlMixedCase == <<"P", "o", "s", "t", "g", "r", "e", "S", "Q", "L", ":", "/", "/", "h">>
PostgresUrlWithAccountWords ==
    <<"p", "o", "s", "t", "g", "r", "e", "s", ":", "/", "/", "a", "c", "c",
      "o", "u", "n", "t", "k", "e", "y", "@", "a", "c", "c", "o", "u", "n",
      "t", "e", "n", "d", "p", "o", "i", "n", "t">>
CosmosConnectionString ==
    <<"A", "c", "c", "o", "u", "n", "t", "E", "n", "d", "p", "o", "i", "n",
      "t", "=", "e", ";", "A", "c", "c", "o", "u", "n", "t", "K", "e", "y",
      "=", "k">>
CosmosConnectionStringLowerCase ==
    <<"a", "c", "c", "o", "u", "n", "t", "e", "n", "d", "p", "o", "i", "n",
      "t", "=", "e", ";", "a", "c", "c", "o", "u", "n", "t", "k", "e", "y",
      "=", "k">>
CosmosConnectionStringKelvinSign ==
    <<"a", "c", "c", "o", "u", "n", "t", "e", "n", "d", "p", "o", "i", "n",
      "t", "=", "e", ";", "a", "c", "c", "o", "u", "n", "t", KelvinSign, "e", "y",
      "=", "k">>
SQLServerUrl == <<"m", "s", "s", "q", "l", "+", "p", "y", "o", "d", "b", "c", ":", "/",
      "/", "h">>
AccountWordsIDotAbove ==
    <<"a", "c", "c", "o", "u", "n", "t", "e", "n", "d", "p", "o", CapitalIDotAbove,
      "n", "t", "=", CapitalEAcute, ";", "a", "c", "c", "o", "u", "n", "t", "k",
      "e", "y", "=", "k">>
PostgresNotAtStart == <<"x", "-", "p", "o", "s", "t", "g", "r", "e", "s", ":", "/", "/", "h">>

ConnectionStrings ==
    { <<>>, PostgreSQLUrlMixedCase, PostgresUrlWithAccountWords,
      CosmosConnectionString, CosmosConnectionStringLowerCase,
      CosmosConnectionStringKelvinSign, AccountWordsIDotAbove, SQLServerUrl,
      PostgresNotAtStart }

\* table names: a whole name is one unit
TableNames == { <<"t">> }

\* what raise ValueError(...) carries: the message, in its parts
NoConnectionStringMessage ==
    <<"No connection string provided. Either pass connection_string parameter ",
      "or set DATABASE_CONNECTION_STRING environment variable.">>
UnableToDetectMessage ==
    <<"Unable to detect database type from connection string. ",
      "Supported formats: ",
      "Cosmos DB (AccountEndpoint=...), ",
      "PostgreSQL (postgresql://...), ",
      "SQL Server (mssql+pyodbc://...)">>
InvalidCosmosMessage == <<"Invalid Cosmos DB connection string">>

\* a function's result: a value returned, or a ValueError raised
Returned(value) == [raised |-> FALSE, value |-> value, message |-> <<>>]
ValueError(message) == [raised |-> TRUE, value |-> <<>>, message |-> message]

\* variant: the PostgreSQL scheme is looked for anywhere in the string
detect_database_type_scheme_anywhere(connection_string) ==
    LET connection_string_lower == lower(connection_string)
    IN  IF /\ contains(connection_string_lower, accountendpoint)
           /\ contains(connection_string_lower, accountkey)
        THEN Returned("cosmosdb")
        ELSE IF \/ contains(connection_string_lower, postgresql_scheme)
                \/ contains(connection_string_lower, postgres_scheme)
        THEN Returned("postgresql")
        ELSE IF \/ contains(connection_string_lower, mssql)
                \/ contains(connection_string_lower, sqlserver)
        THEN Returned("sqlserver")
        ELSE ValueError(UnableToDetectMessage)

detect_database_type(connection_string) ==
    LET connection_string_lower == lower(connection_string)
    IN  IF /\ contains(connection_string_lower, accountendpoint)
           /\ contains(connection_string_lower, accountkey)
        THEN Returned("cosmosdb")
        ELSE IF \/ startswith(connection_string_lower, postgresql_scheme)
                \/ startswith(connection_string_lower, postgres_scheme)
        THEN Returned("postgresql")
        ELSE IF \/ contains(connection_string_lower, mssql)
                \/ contains(connection_string_lower, sqlserver)
        THEN Returned("sqlserver")
        ELSE ValueError(UnableToDetectMessage)

\* the loop of _parse_connection_string over the parts: a later part
\* overrides an earlier one
RECURSIVE parse_parts(_, _, _)
parse_parts(parts, endpoint, key) ==
    IF parts = <<>> THEN [endpoint |-> endpoint, key |-> key]
    ELSE IF startswith(Head(parts), AccountEndpoint_eq)
    THEN parse_parts(Tail(parts), Some(after_equals(Head(parts))), key)
    ELSE IF startswith(Head(parts), AccountKey_eq)
    THEN parse_parts(Tail(parts), endpoint, Some(after_equals(Head(parts))))
    ELSE parse_parts(Tail(parts), endpoint, key)

CosmosDB_parse_connection_string(connection_string) ==
    LET parsed == parse_parts(split(connection_string, ";"), None, None)
    IN  IF ~OptTruthy(parsed.endpoint) \/ ~OptTruthy(parsed.key)
        THEN ValueError(InvalidCosmosMessage)
        ELSE Returned(parsed)

\* a driver instance as its constructor leaves it: self.pool / self.client /
\* self.engine is None (pool 0)
Instance(class, connection_string, table_name) ==
    [class |-> class, connection_string |-> connection_string,
     table_name |-> table_name, pool |-> 0]

\* whether the first statement of initialize() makes the instance its pool,
\* client or engine. CosmosClient(endpoint, credential=key) connects to
\* nothing and returns. `await asyncpg.create_pool(connection_string)`
\* connects: it returns a pool or raises, as the server answers.
\* create_async_engine(connection_string) connects to nothing, but raises
\* for a connection string that names a driver which is not an asyncio one,
\* as pyodbc in mssql+pyodbc://..., the format the factory names
creates(instance) ==
    CASE instance.class = "cosmosdb"   -> {TRUE}
      [] instance.class = "postgresql" -> {TRUE, FALSE}
      [] instance.class = "sqlserver"  ->
            IF startswith(lower(instance.connection_string), mssql_pyodbc_scheme)
            THEN {FALSE} ELSE {TRUE}

\* CosmosDBStatePersistence(...), PostgreSQLStatePersistence(...),
\* SQLServerStatePersistence(...)
construct(class, connection_string, table_name) ==
    IF class = "cosmosdb"
       /\ CosmosDB_parse_connection_string(connection_string).raised
    THEN CosmosDB_parse_connection_string(connection_string)
    ELSE Returned(Instance(class, connection_string, table_name))

\* os.getenv(name) and os.getenv(name, default)
getenv(environ, name) == environ[name]
getenv_default(environ, name, default) ==
    IF environ[name] = None THEN default ELSE environ[name][1]

create_state_persistence_result(environ, connection_string, table_name) ==
    LET resolved == IF connection_string = None
                    THEN getenv(environ, "DATABASE_CONNECTION_STRING")
                    ELSE connection_string
        resolved_table == IF table_name = None
                          THEN getenv_default(environ, "DATABASE_TABLE_NAME",
                                              <<"graph_states">>)
                          ELSE table_name[1]
    IN  IF ~OptTruthy(resolved) THEN ValueError(NoConnectionStringMessage)
        ELSE LET db_type == detect_database_type(resolved[1])
             IN  IF db_type.raised THEN db_type
                 ELSE construct(db_type.value, resolved[1], resolved_table)

\* the process environment (os.environ) with neither variable set
NoEnviron ==
    [DATABASE_CONNECTION_STRING |-> None, DATABASE_TABLE_NAME |-> None]

\* the environments a process runs in
Environs ==
    { NoEnviron,
      [DATABASE_CONNECTION_STRING |-> Some(<<>>),
       DATABASE_TABLE_NAME |-> Some(<<"e">>)],
      [DATABASE_CONNECTION_STRING |-> Some(SQLServerUrl),
       DATABASE_TABLE_NAME |-> Some(<<"e">>)] }

\* the arguments callers pass
ConnectionStringArguments == {None} \cup {Some(c) : c \in ConnectionStrings}
TableNameArguments == {None} \cup {Some(t) : t \in TableNames}

\* create_state_persistence_result on each of these inputs, worked out once
create_state_persistence_results ==
    [a \in Environs \X ConnectionStringArguments \X TableNameArguments |->
        create_state_persistence_result(a[1], a[2], a[3])] @@ <<>>

\* no call of the factory yet
NoFactoryCall ==
    [op |-> "none", connection_string |-> None, table_name |-> None,
     raised |-> FALSE, message |-> <<>>, instance |-> 0]

\* the factory unused: no instance made, no pool created
NoFactory ==
    [environ |-> NoEnviron, instances |-> <<>>, pools |-> 0, call |-> NoFactoryCall]

\* variant: the factory keeps the instances it made and hands out the one made
\* for the same connection string and table before
cached_instance(instances, instance) ==
    IF \E i \in 1..Len(instances) :
           /\ instances[i].connection_string = instance.connection_string
           /\ instances[i].table_name = instance.table_name
    THEN [instances |-> instances,
          index |-> CHOOSE i \in 1..Len(instances) :
                      /\ instances[i].connection_string = instance.connection_string
                      /\ instances[i].table_name = instance.table_name]
    ELSE [instances |-> Append(instances, instance), index |-> Len(instances) + 1]

\* `return <Class>(connection_string, table_name)`: a new object, which the
\* caller alone holds
new_instance(instances, instance) ==
    [instances |-> Append(instances, instance), index |-> Len(instances) + 1]

----------------------------------------------------------------------------
(* The lab06 stateful workflow graph *)

\* what llm.invoke(...) answers
LlmResponses == { <<"sound">>, <<"weak">> }

\* the nodes whose function calls get_llm() and llm.invoke(...), none of them
\* inside a try block
LlmNodes ==
    { "analyze", "quality_check", "compliance_check", "security_check", "revise" }

\* the document_content callers start a run with
InitialDocuments == { <<>>, <<"policy">>, <<"contract">> }

\* the decision process_approval_decision records: the reviewer is simulated,
\* the decision is this constant in every run
approval_decision == <<"approved">>

\* config = {"configurable": {"thread_id": ...}} names no recursion_limit:
\* the graph library's default number of super-steps applies
recursion_limit == 25

\* the initial_state the runners pass to app.invoke
initial_state(document_content) ==
    [messages |-> <<>>, document_content |-> document_content,
     current_step |-> <<"start">>, approval_status |-> <<"pending">>,
     reviewer_feedback |-> <<>>, revision_count |-> 0,
     parallel_results |-> <<>>, human_input_required |-> FALSE]

\* d[key] = value on a dict
dict_set(d, key, value) ==
    IF \E i \in 1..Len(d) : d[i][1] = key
    THEN [i \in 1..Len(d) |-> IF d[i][1] = key THEN <<key, value>> ELSE d[i]]
    ELSE Append(d, <<key, value>>)

\* state["messages"].append({"role": role, ...})
append_message(v, role) == [v EXCEPT !.messages = Append(@, role)]

initialize_workflow(v) ==
    [v EXCEPT !.current_step = <<"initialized">>,
              !.approval_status = <<"pending">>,
              !.revision_count = 0,
              !.parallel_results = <<>>,
              !.human_input_required = FALSE,
              !.messages = IF Truthy(@) THEN @ ELSE <<>>]

analyze_document(v, response) ==
    append_message(
        [v EXCEPT !.document_content =
                      IF Truthy(@) THEN @
                      ELSE <<"Sample document for analysis and approval workflow.">>,
                  !.reviewer_feedback = response,
                  !.current_step = <<"analyzed">>],
        "system")

request_human_approval(v) ==
    append_message([v EXCEPT !.current_step = <<"awaiting_approval">>,
                             !.human_input_required = TRUE],
                   "system")

process_approval_decision(v) ==
    append_message([v EXCEPT !.approval_status = approval_decision,
                             !.current_step = <<"decision_">> \o approval_decision,
                             !.human_input_required = FALSE],
                   "human")

handle_revision(v, response) ==
    append_message([v EXCEPT !.revision_count = @ + 1,
                             !.current_step = <<"revising">>,
                             !.document_content = response],
                   "system")

parallel_analysis_quality(v, response) ==
    [v EXCEPT !.parallel_results = dict_set(@, "quality", response)]

parallel_analysis_compliance(v, response) ==
    [v EXCEPT !.parallel_results = dict_set(@, "compliance", response)]

parallel_analysis_security(v, response) ==
    [v EXCEPT !.parallel_results = dict_set(@, "security", response)]

\* analysis_type.upper() of a key of parallel_results
upper(analysis_type) ==
    CASE analysis_type = "quality"    -> "QUALITY"
      [] analysis_type = "compliance" -> "COMPLIANCE"
      [] analysis_type = "security"   -> "SECURITY"

RECURSIVE merged_analyses(_)
merged_analyses(items) ==
    IF items = <<>> THEN <<>>
    ELSE <<upper(items[1][1]), " ANALYSIS:\n">> \o items[1][2] \o <<"\n\n">>
         \o merged_analyses(Tail(items))

merge_parallel_results(v) ==
    append_message(
        [v EXCEPT !.reviewer_feedback =
                      <<"Combined Analysis Results:\n\n">>
                      \o merged_analyses(v.parallel_results),
                  !.current_step = <<"parallel_complete">>],
        "system")

finalize_workflow(v) ==
    append_message([v EXCEPT !.current_step = <<"completed">>], "system")

should_request_approval(v) ==
    IF v.current_step = <<"analyzed">> THEN "parallel" ELSE "approval"

approval_decision_router(v) ==
    IF v.approval_status = <<"approved">> THEN "approved"
    ELSE IF v.approval_status = <<"needs_revision">> THEN "revision"
    ELSE "rejected"

revision_limit_check(v) ==
    IF v.revision_count >= 3 THEN "rejected" ELSE "analyze"

\* the edges of create_stateful_workflow: the node that follows `node` once
\* it has left the state v
next_node(node, v) ==
    CASE node = "__start__"        -> "initialize"
      [] node = "initialize"       -> "analyze"
      [] node = "analyze"          ->
            IF should_request_approval(v) = "parallel" THEN "quality_check"
            ELSE "request_approval"
      [] node = "quality_check"    -> "compliance_check"
      [] node = "compliance_check" -> "security_check"
      [] node = "security_check"   -> "merge_results"
      [] node = "merge_results"    -> "request_approval"
      [] node = "request_approval" -> "process_decision"
      [] node = "process_decision" ->
            IF approval_decision_router(v) = "revision" THEN "revise"
            ELSE "finalize"
      [] node = "revise"           ->
            IF revision_limit_check(v) = "analyze" THEN "analyze"
            ELSE "finalize"
      [] node = "finalize"         -> "__end__"

\* no run of the graph
NoRun ==
    [status |-> "idle", next |-> "__start__", step |-> 0, revisions |-> 0,
     values |-> initial_state(<<>>)]

----------------------------------------------------------------------------
(* Actions *)

Init ==
    /\ driver \in Drivers
    /\ store = EmptyBag
    /\ now = 1
    /\ last = NoCall
    /\ first_insert = [k \in SaveKeys |-> 0]
    /\ handle = 1
    /\ signal = "returned"
    /\ backend = Initialized(Constructed)
    /\ peer = NoPeer
    /\ tasks = [i \in Tasks |-> IdleTask]
    /\ factory = NoFactory
    /\ workflow = NoRun
    /\ self_container = (IF driver = "cosmosdb" THEN 1 ELSE 0)
    /\ initializing = EmptyBag
    /\ deleting = EmptyBag
    /\ paging = EmptyBag

\* the wall clock advances between calls
Tick ==
    /\ now < MaxTime
    /\ now' = now + 1
    /\ UNCHANGED <<driver, store, last, first_insert, handle, signal, backend, peer, tasks, factory, workflow, self_container, initializing, deleting, paging>>

\* fail: the backend request of this call fails (the handler's except branch)
save_state(fail) ==
    /\ Free /\ Usable
    /\ \E k \in SaveKeys, p \in Payloads :
         \E out \in save_state_outcomes(k[1], k[2], p[1], p[2], Fails(fail)) :
           /\ store' = out.store
           /\ first_insert' = Inserted(out.store)
           /\ last' = Call("save_state", k[1], Some(k[2]), p[1], p[2], 0, Fails(fail), out)
           /\ signal' = "returned"
           /\ UNCHANGED handle
           /\ backend' = Reached(requester)
           /\ UNCHANGED <<driver, now, peer, tasks, factory, workflow, self_container, initializing, deleting, paging>>

\* load_state / list_checkpoints, a failing request of it reaching the caller
\* as `failure` ("returned", or the exception). The call is one request, but
\* for a Cosmos DB query: there the request is for the first page, and more
\* requests follow until the query is read to its end
read_call(op, thread_id, checkpoint_id, limit, fail, failure) ==
    /\ Free /\ Usable
    /\ UNCHANGED handle
    /\ backend' = Reached(requester)
    /\ IF Paged(op, thread_id, checkpoint_id) /\ ~fail
       THEN \E q \in {Paging(op, thread_id, checkpoint_id, limit)} :
              \E p \in next_page(q) :
                IF p.over
                THEN /\ last' = Call(op, thread_id, checkpoint_id, <<>>, None, limit,
                                     FALSE, paged_result(q, p.items))
                     /\ signal' = "returned"
                     /\ UNCHANGED paging
                ELSE /\ paging' = paging (+) SetToBag({[q EXCEPT !.items = p.items]})
                     /\ last' = Request("query_items", thread_id)
                     /\ UNCHANGED signal
       ELSE \E out \in (IF op = "load_state"
                        THEN load_state_outcomes(thread_id, checkpoint_id, Fails(fail))
                        ELSE list_checkpoints_outcomes(thread_id, limit, Fails(fail))) :
              /\ last' = Call(op, thread_id, checkpoint_id, <<>>, None, limit,
                              Fails(fail), out)
              /\ signal' = IF fail THEN failure ELSE "returned"
              /\ UNCHANGED paging
    /\ UNCHANGED <<driver, store, now, first_insert, peer, tasks, factory, workflow,
                   self_container, initializing, deleting>>

load_state(fail) ==
    \E thread_id \in ThreadIds,
       checkpoint_id \in {None} \cup {Some(c) : c \in CheckpointIds} :
        read_call("load_state", thread_id, checkpoint_id, 0, fail, "returned")

list_checkpoints(fail) ==
    \E thread_id \in ThreadIds, limit \in Limits :
        read_call("list_checkpoints", thread_id, None, limit, fail, "returned")

\* the next page request of a Cosmos DB query that is being read: its items
\* are those that follow the last item returned in the store as it is now. A
\* failing request (CosmosHttpResponseError is caught: None, or []) reaches
\* the caller as `failure`; after the last page the handler returns what the
\* pages held
query_items_page(fail, failure) ==
    \E q \in BagToSet(paging) :
      \E p \in (IF fail THEN {[items |-> <<>>, over |-> TRUE]} ELSE next_page(q)) :
        /\ Usable
        /\ UNCHANGED handle
        /\ backend' = Reached(requester)
        /\ paging' = (paging (-) SetToBag({q})) (+)
                     (IF p.over THEN EmptyBag
                      ELSE SetToBag({[q EXCEPT !.items = p.items]}))
        /\ last' = IF p.over
                   THEN [Call(q.op, q.thread_id, q.checkpoint_id, <<>>, None, q.limit, fail,
                              IF fail THEN Outcome(store, FALSE, None, <<>>)
                              ELSE paged_result(q, p.items))
                            EXCEPT !.prior = q.prior]
                   ELSE Request("query_items", q.thread_id)
        /\ signal' = IF ~p.over THEN signal
                     ELSE IF fail THEN failure ELSE "returned"
        /\ UNCHANGED <<driver, store, now, first_insert, peer, tasks, factory, workflow,
                       self_container, initializing, deleting>>

\* a query that is being read comes to its next page request on a client
\* that was closed in the meantime and refuses the request
query_items_page_unusable ==
    \E q \in BagToSet(paging) :
        /\ Unusable
        /\ paging' = paging (-) SetToBag({q})
        /\ last' = [Call(q.op, q.thread_id, q.checkpoint_id, <<>>, None, q.limit, TRUE,
                         Outcome(store, FALSE, None, <<>>))
                       EXCEPT !.prior = q.prior]
        /\ signal' = IF Caught(unusable_exception) THEN "returned"
                     ELSE unusable_exception
        /\ UNCHANGED <<driver, store, now, first_insert, handle, backend, peer, tasks,
                       factory, workflow, self_container, initializing, deleting>>

\* delete_state(thread_id, checkpoint_id), a failing request of it reaching
\* the caller as `failure` ("returned", or the exception). The call is one
\* request, but for the Cosmos DB bulk delete: there the request is the
\* query, and when it returns items the loop over them is still to run, one
\* awaited delete_item each, with the calls of other tasks in between
delete_state_call(thread_id, checkpoint_id, fail, failure) ==
    /\ Free /\ Usable
    /\ UNCHANGED handle
    /\ backend' = Reached(requester)
    /\ \E bulk \in {IF /\ driver = "cosmosdb" /\ ~OptTruthy(checkpoint_id) /\ ~fail
                       /\ query_accepted(where_thread_id(thread_id))
                    THEN BulkDelete(thread_id, checkpoint_id) ELSE NoBulkDelete} :
         IF bulk.items # {}
         THEN /\ deleting' = deleting (+) SetToBag({bulk})
              /\ last' = Request("query_items", thread_id)
              /\ UNCHANGED <<store, first_insert, signal>>
         ELSE \E out \in delete_state_outcomes(thread_id, checkpoint_id, Fails(fail)) :
                /\ store' = out.store
                /\ first_insert' = Inserted(out.store)
                /\ last' = Call("delete_state", thread_id, checkpoint_id, <<>>, None,
                                0, Fails(fail), out)
                /\ signal' = IF fail THEN failure ELSE "returned"
                /\ UNCHANGED deleting
    /\ UNCHANGED <<driver, now, peer, tasks, factory, workflow, self_container, initializing, paging>>

delete_state(fail) ==
    \E thread_id \in ThreadIds,
       checkpoint_id \in {None} \cup {Some(c) : c \in CheckpointIds} :
        delete_state_call(thread_id, checkpoint_id, fail, "returned")

\* one turn of the loop of a Cosmos DB bulk delete: delete_item for an id the
\* query returned. An item that is gone by now is a
\* CosmosResourceNotFoundError, which the except clause catches (return
\* False); a failing request reaches the caller as `failure`; after the last
\* item the call returns True
delete_item(fail, failure) ==
    \E d \in BagToSet(deleting) :
      \E id \in d.items :
        LET found == ItemsById(store, id, d.thread_id)
            failed == fail \/ found = EmptyBag
            over == failed \/ d.items = {id}
            out == Outcome(IF failed THEN store ELSE store (-) found, ~failed,
                           None, <<>>)
        IN  /\ Usable
            /\ UNCHANGED handle
            /\ backend' = Reached(requester)
            /\ store' = out.store
            /\ first_insert' = Inserted(out.store)
            /\ deleting' = (deleting (-) SetToBag({d})) (+)
                           (IF over THEN EmptyBag
                            ELSE SetToBag({[d EXCEPT !.items = @ \ {id},
                                                     !.removed = TRUE]}))
            /\ last' = IF over
                       THEN [Call("delete_state", d.thread_id, d.checkpoint_id,
                                  <<>>, None, 0, fail, out)
                               EXCEPT !.prior = d.prior]
                       ELSE Request("delete_item", d.thread_id)
            /\ signal' = IF ~over THEN signal
                         ELSE IF fail THEN failure ELSE "returned"
            /\ UNCHANGED <<driver, now, peer, tasks, factory, workflow, self_container,
                           initializing, paging>>

\* the loop of a bulk delete comes to its next delete_item on a client that
\* was closed in the meantime and refuses the request
delete_item_unusable ==
    \E d \in BagToSet(deleting) :
        /\ Unusable
        /\ deleting' = deleting (-) SetToBag({d})
        /\ last' = [Call("delete_state", d.thread_id, d.checkpoint_id, <<>>, None,
                         0, TRUE, Outcome(store, FALSE, None, <<>>))
                       EXCEPT !.prior = d.prior]
        /\ signal' = IF Caught(unusable_exception) THEN "returned"
                     ELSE unusable_exception
        /\ UNCHANGED <<driver, store, now, first_insert, handle, backend, peer, tasks,
                       factory, workflow, self_container, initializing, paging>>

\* initialize() up to its first await on the schema. CosmosClient(...) and
\* create_async_engine(...) return at once and the new object is assigned to
\* self.client / self.engine. asyncpg.create_pool(...) is awaited and self.pool
\* assigned when it returns: when it raises (fail), self.pool keeps what it
\* referred to, no pool is made and the exception reaches the caller. The
\* schema objects are created by the requests that follow, made through the
\* object of this call, with the calls of other tasks in between
initialize(fail) ==
    /\ Free
    /\ IF fail
       THEN /\ driver = "postgresql"
            /\ last' = Call("initialize", <<>>, None, <<>>, None, 0, TRUE,
                            Outcome(store, FALSE, None, <<>>))
            /\ signal' = "ConnectionError"
            /\ UNCHANGED <<handle, backend, initializing>>
       ELSE /\ Len(backend.clients) < MaxPools
            /\ handle' = Len(backend.clients) + 1
            /\ backend' = [backend EXCEPT !.clients = Append(@, "open")]
            /\ initializing' = initializing (+)
                   SetToBag({[client |-> Len(backend.clients) + 1,
                              object |-> IF driver = "cosmosdb" THEN "database"
                                         ELSE "table"]})
            /\ last' = Request("create_pool", <<>>)
            /\ UNCHANGED signal
    /\ UNCHANGED <<driver, store, now, first_insert, peer, tasks, factory,
                   workflow, self_container, deleting, paging>>

\* the next request of an initialize() call, made through the pool, engine or
\* client the call created: CREATE TABLE ... and the indexes in one
\* statement, or create_database_if_not_exists and then
\* create_container_if_not_exists. An exception ends the call and reaches the
\* caller: none of the three handlers returns a value. self.container is
\* assigned when the container request has returned, and is the container of
\* this call's client
initialize_create(fail) ==
    \E call \in BagToSet(initializing) :
      \E reached \in {r \in BOOLEAN : IF r THEN Reachable(call.client)
                                      ELSE Unreachable(call.client)} :
        LET schema == create_object(backend.schema, call.object)
            raised == ~reached \/ fail \/ AlreadyExists(schema)
            over == raised \/ call.object # "database"
        IN  /\ initializing' = (initializing (-) SetToBag({call})) (+)
                               (IF over THEN EmptyBag
                                ELSE SetToBag({[call EXCEPT !.object = "container"]}))
            /\ backend' = [(IF reached THEN Reached(call.client) ELSE backend) EXCEPT
                              !.schema = IF raised THEN @ ELSE schema]
            /\ self_container' = IF ~raised /\ call.object = "container"
                                 THEN call.client ELSE self_container
            /\ last' = IF over
                       THEN [Call("initialize", <<>>, None, <<>>, None, 0, fail,
                                  Outcome(store, ~raised, None, <<>>))
                                EXCEPT !.handle = state_of(call.client)]
                       ELSE Request("create_database", <<>>)
            /\ signal' = IF ~over THEN signal
                         ELSE IF ~reached
                         THEN (IF driver = "postgresql" THEN "InterfaceError"
                               ELSE "ValueError")
                         ELSE IF fail
                         THEN (IF driver = "cosmosdb" THEN "CosmosHttpResponseError"
                               ELSE "ConnectionError")
                         ELSE IF AlreadyExists(schema) THEN "DuplicateObjectError"
                         ELSE "returned"
            /\ UNCHANGED <<driver, store, now, first_insert, handle, peer, tasks,
                           factory, workflow, deleting, paging>>

\* close(): `if self.pool:` / `if self.client:` / `if self.engine:` is true
\* once initialize() has assigned the attribute, and stays true after a
\* close(), which neither resets the attribute nor sets a flag: every close()
\* on such an instance calls pool.close() / client.close() / engine.dispose()
\* on the object the attribute refers to now. `reclosed` records that such
\* a call has reached an object that was closed already; the object has
\* nothing left to close then and returns (asyncpg Pool.close returns on its
\* _closed flag, a disposed engine holds no connection, a closed client no
\* session)
close ==
    /\ Free
    /\ backend' = IF handle = 0 THEN backend
                  ELSE [backend EXCEPT
                          !.clients[handle] = "closed",
                          !.reclosed = @ \/ backend.clients[handle] = "closed"]
    /\ signal' = "returned"
    /\ last' = Call("close", <<>>, None, <<>>, None, 0, FALSE,
                    Outcome(store, TRUE, None, <<>>))
    /\ UNCHANGED <<driver, store, now, first_insert, handle, peer, tasks, factory, workflow, self_container, initializing, deleting, paging>>

\* a call on an instance that cannot reach its backend: the exception is
\* turned into False / None / [] where the except clause catches it
unusable_call(op, thread_id, checkpoint_id, state, metadata, limit) ==
    /\ Free /\ Unusable
    /\ signal' = IF Caught(unusable_exception) THEN "returned"
                 ELSE unusable_exception
    /\ last' = Call(op, thread_id, checkpoint_id, state, metadata, limit, TRUE,
                    Outcome(store, FALSE, None, <<>>))
    /\ UNCHANGED <<driver, store, now, first_insert, handle, backend, peer, tasks, factory, workflow, self_container, initializing, deleting, paging>>

save_state_unusable(keys, payloads) ==
    \E k \in keys, p \in payloads :
        unusable_call("save_state", k[1], Some(k[2]), p[1], p[2], 0)

load_state_unusable(thread_ids) ==
    \E thread_id \in thread_ids,
       checkpoint_id \in {None} \cup {Some(c) : c \in CheckpointIds} :
        unusable_call("load_state", thread_id, checkpoint_id, <<>>, None, 0)

list_checkpoints_unusable(thread_ids) ==
    \E thread_id \in thread_ids, limit \in Limits :
        unusable_call("list_checkpoints", thread_id, None, <<>>, None, limit)

delete_state_unusable(thread_ids) ==
    \E thread_id \in thread_ids,
       checkpoint_id \in {None} \cup {Some(c) : c \in CheckpointIds} :
        unusable_call("delete_state", thread_id, checkpoint_id, <<>>, None, 0)

\* a call whose backend request ends in the given exception: what the
\* request did to the store is that of a failed request, and the caller gets
\* the handler's error result if the except clause catches the exception,
\* the exception itself otherwise
raising(exception) == IF Caught(exception) THEN "returned" ELSE exception

save_state_raising(exception) ==
    /\ Free /\ Usable
    /\ \E k \in SaveKeys, p \in Payloads :
         \E out \in save_state_outcomes(k[1], k[2], p[1], p[2], TRUE) :
           /\ store' = out.store
           /\ first_insert' = Inserted(out.store)
           /\ last' = Call("save_state", k[1], Some(k[2]), p[1], p[2], 0, TRUE, out)
           /\ signal' = raising(exception)
           /\ UNCHANGED handle
           /\ backend' = Reached(requester)
           /\ UNCHANGED <<driver, now, peer, tasks, factory, workflow, self_container, initializing, deleting, paging>>

load_state_raising(exception) ==
    \E thread_id \in ThreadIds,
       checkpoint_id \in {None} \cup {Some(c) : c \in CheckpointIds} :
        read_call("load_state", thread_id, checkpoint_id, 0, TRUE, raising(exception))

list_checkpoints_raising(exception) ==
    \E thread_id \in ThreadIds, limit \in Limits :
        read_call("list_checkpoints", thread_id, None, limit, TRUE,
                  raising(exception))

delete_state_raising(exception) ==
    \E thread_id \in ThreadIds,
       checkpoint_id \in {None} \cup {Some(c) : c \in CheckpointIds} :
        delete_state_call(thread_id, checkpoint_id, TRUE, raising(exception))

\* the four calls with their thread ids, keys and payloads drawn from given
\* sets, the backend answering
save_state_among(keys, payloads) ==
    /\ Free /\ Usable
    /\ \E k \in keys, p \in payloads :
         \E out \in save_state_outcomes(k[1], k[2], p[1], p[2], Fails(FALSE)) :
           /\ store' = out.store
           /\ first_insert' = Inserted(out.store)
           /\ last' = Call("save_state", k[1], Some(k[2]), p[1], p[2], 0,
                           Fails(FALSE), out)
           /\ signal' = "returned"
           /\ UNCHANGED handle
           /\ backend' = Reached(requester)
           /\ UNCHANGED <<driver, now, peer, tasks, factory, workflow, self_container, initializing, deleting, paging>>

load_state_among(thread_ids) ==
    \E thread_id \in thread_ids,
       checkpoint_id \in {None} \cup {Some(c) : c \in CheckpointIds} :
        read_call("load_state", thread_id, checkpoint_id, 0, FALSE, "returned")

list_checkpoints_among(thread_ids) ==
    \E thread_id \in thread_ids :
        read_call("list_checkpoints", thread_id, None, MaxLimit, FALSE, "returned")

delete_state_among(thread_ids) ==
    \E thread_id \in thread_ids,
       checkpoint_id \in {None} \cup {Some(c) : c \in CheckpointIds} :
        delete_state_call(thread_id, checkpoint_id, FALSE, "returned")

\* every call, against a backend that answers
Next ==
    \/ Tick
    \/ save_state(FALSE)
    \/ load_state(FALSE)
    \/ list_checkpoints(FALSE)
    \/ delete_state(FALSE)
    \/ delete_item(FALSE, "returned")
    \/ query_items_page(FALSE, "returned")

Spec == Init /\ [][Next]_vars

\* every call, against a backend whose requests may fail: with an error
\* response of the backend, or with a lost connection. The calls come within
\* one tick of the clock
NextFaults ==
    \/ save_state(FALSE)
    \/ load_state(FALSE)
    \/ list_checkpoints(FALSE)
    \/ delete_state(FALSE)
    \/ delete_item(FALSE, "returned")
    \/ save_state(TRUE)
    \/ load_state(TRUE)
    \/ list_checkpoints(TRUE)
    \/ delete_state(TRUE)
    \/ save_state_raising("ConnectionError")
    \/ load_state_raising("ConnectionError")
    \/ list_checkpoints_raising("ConnectionError")
    \/ delete_state_raising("ConnectionError")
    \/ delete_item(TRUE, "returned")
    \/ delete_item(TRUE, raising("ConnectionError"))
    \/ query_items_page(FALSE, "returned")
    \/ query_items_page(TRUE, "returned")
    \/ query_items_page(TRUE, raising("ConnectionError"))

SpecFaults == Init /\ [][NextFaults]_vars

\* the calls that change the store, against a backend whose requests may
\* fail, within one tick of the clock
NextWrites ==
    \/ save_state(FALSE)
    \/ save_state(TRUE)
    \/ delete_state(FALSE)
    \/ delete_state(TRUE)
    \/ delete_item(FALSE, "returned")
    \/ delete_item(TRUE, "returned")

SpecWrites == Init /\ [][NextWrites]_vars

\* two initialized instances of different drivers, each on its own empty store
InitDrivers ==
    /\ \E pair \in { <<"cosmosdb", "postgresql">>, <<"postgresql", "sqlserver">>,
                     <<"sqlserver", "cosmosdb">> } :
          /\ driver = pair[1]
          /\ peer = [NoPeer EXCEPT !.driver = pair[2]]
    /\ store = EmptyBag
    /\ now = 1
    /\ last = NoCall
    /\ first_insert = [k \in SaveKeys |-> 0]
    /\ handle = 1
    /\ signal = "returned"
    /\ backend = Initialized(Constructed)
    /\ tasks = [i \in Tasks |-> IdleTask]
    /\ factory = NoFactory
    /\ workflow = NoRun
    /\ self_container = (IF driver = "cosmosdb" THEN 1 ELSE 0)
    /\ initializing = EmptyBag
    /\ deleting = EmptyBag
    /\ paging = EmptyBag

\* the caller makes a call on the first instance; the second comes to hand
call_first(op) ==
    /\ peer.turn = "first"
    /\ \E c \in Calls(op) :
         \E out \in outcomes(c) :
           /\ last' = Call(c.op, c.thread_id, c.checkpoint_id, c.state,
                           c.metadata, c.limit, FALSE, out)
           /\ driver' = peer.driver
           /\ store' = peer.store
           /\ peer' = [driver |-> driver, store |-> out.store, turn |-> "second",
                       observed |-> Observation(c.op, out), agree |-> peer.agree]
    /\ signal' = "returned"
    /\ UNCHANGED <<now, first_insert, handle, backend, tasks, factory, workflow, self_container, initializing, deleting, paging>>

\* the caller makes the same call on the second instance and compares what
\* the two returned; the first instance comes to hand again
call_second ==
    /\ peer.turn = "second"
    /\ \E out \in outcomes(last) :
           /\ last' = Call(last.op, last.thread_id, last.checkpoint_id, last.state,
                           last.metadata, last.limit, FALSE, out)
           /\ driver' = peer.driver
           /\ store' = peer.store
           /\ peer' = [driver |-> driver, store |-> out.store, turn |-> "first",
                       observed |-> peer.observed,
                       agree |-> (Observation(last.op, out) = peer.observed)]
    /\ signal' = "returned"
    /\ UNCHANGED <<now, first_insert, handle, backend, tasks, factory, workflow, self_container, initializing, deleting, paging>>

\* the clock advances between two calls of the caller
tick_between_calls == peer.turn = "first" /\ Tick

NextDrivers ==
    \/ tick_between_calls
    \/ call_first("save_state")
    \/ call_first("load_state")
    \/ call_first("list_checkpoints")
    \/ call_first("delete_state")
    \/ call_second

SpecDrivers == InitDrivers /\ [][NextDrivers]_vars

\* a task enters a handler: the connection is acquired and the request
\* sent. A task that left a release behind (cancel_at_release) is followed
\* into its next call once that release is through
begin(op) ==
    \E i \in Tasks, c \in TaskCalls(op) :
        /\ ~InFlight(tasks[i]) /\ ~tasks[i].background
        /\ tasks' = [j \in Tasks |->
               IF j = i
               THEN [IdleTask EXCEPT
                       !.pc = "in_flight", !.call = c,
                       !.conn = AcquiresConnection, !.acquired = AcquiresConnection,
                       !.overlapped = /\ op = "save_state"
                                      /\ \E k \in Tasks \ {i} : Saving(tasks[k])]
               ELSE [tasks[j] EXCEPT
                       !.overlapped = @ \/ (op = "save_state" /\ Saving(tasks[j]))]]
        /\ UNCHANGED <<driver, store, now, last, first_insert, handle, signal,
                       backend, peer, factory, workflow, self_container, initializing, deleting, paging>>

\* SQL Server evaluates the ON clause of the MERGE: WHEN MATCHED or WHEN NOT
\* MATCHED is decided before the row is written
merge_match ==
    \E i \in Tasks :
        /\ driver = "sqlserver"
        /\ tasks[i].pc = "in_flight" /\ tasks[i].call.op = "save_state"
        /\ tasks' = [tasks EXCEPT
               ![i].pc = "matched",
               ![i].matched = DocsOfKey(store, tasks[i].call.thread_id,
                                        tasks[i].call.checkpoint_id[1]) # EmptyBag]
        /\ UNCHANGED <<driver, store, now, last, first_insert, handle, signal,
                       backend, peer, factory, workflow, self_container, initializing, deleting, paging>>

\* the backend carries out the statement, or the upsert, read, query or
\* delete of the Cosmos DB handler: the store holds its effect from here on,
\* while the task still waits for the reply with its connection checked out.
\* Of a Cosmos DB query read page by page this is one page request: until
\* the last page the task stays in flight with the items it has
carry_out ==
    \E i \in Tasks :
        /\ IF driver = "sqlserver" /\ tasks[i].call.op = "save_state"
           THEN tasks[i].pc = "matched"
           ELSE tasks[i].pc = "in_flight"
        /\ IF Paged(tasks[i].call.op, tasks[i].call.thread_id,
                    tasks[i].call.checkpoint_id)
           THEN \E p \in next_page([Paging(tasks[i].call.op, tasks[i].call.thread_id,
                                           tasks[i].call.checkpoint_id,
                                           tasks[i].call.limit)
                                       EXCEPT !.items = tasks[i].items]) :
                   /\ tasks' = [tasks EXCEPT
                          ![i].pc = IF p.over THEN "carried_out" ELSE "in_flight",
                          ![i].ok = p.over,
                          ![i].items = IF p.over THEN <<>> ELSE p.items]
                   /\ UNCHANGED <<store, first_insert>>
           ELSE \E out \in task_outcomes(tasks[i]) :
                   /\ store' = out.store
                   /\ first_insert' = Inserted(out.store)
                   /\ tasks' = [tasks EXCEPT ![i].pc = "carried_out",
                                             ![i].ok = out.ok,
                                             ![i].matched = FALSE]
        /\ UNCHANGED <<driver, now, last, handle, signal, backend, peer, factory, workflow, self_container, initializing, deleting, paging>>

\* variant: the connection goes back to the pool after the reply only: the
\* handler acquires it with `conn = await self.pool.acquire()` and releases
\* it after the request, with no `async with` or `finally` around the two
release_after_reply_only(i) ==
    /\ tasks[i].conn /\ tasks[i].pc = "carried_out"
    /\ tasks' = [tasks EXCEPT ![i].conn = FALSE]
    /\ UNCHANGED <<driver, store, now, last, first_insert, handle, signal,
                   backend, peer, factory, workflow, self_container, initializing, deleting, paging>>

\* the connection of task i goes back to the pool: the `async with` block is
\* left, by the reply or by CancelledError, and its exit awaits the release
\* (pool.release(conn) / AsyncSession.__aexit__ run it under asyncio.shield)
release_of(i) ==
    /\ tasks[i].conn /\ tasks[i].pc \in {"carried_out", "cancelling"}
    /\ tasks' = [tasks EXCEPT ![i].conn = FALSE]
    /\ UNCHANGED <<driver, store, now, last, first_insert, handle, signal,
                   backend, peer, factory, workflow, self_container, initializing, deleting, paging>>

\* a release that a cancelled task left behind (cancel_at_release) comes to
\* its end in the background
shielded_release_of(i) ==
    /\ tasks[i].background
    /\ tasks' = [tasks EXCEPT ![i].background = FALSE]
    /\ UNCHANGED <<driver, store, now, last, first_insert, handle, signal,
                   backend, peer, factory, workflow, self_container, initializing, deleting, paging>>

release == \E i \in Tasks : release_of(i) \/ shielded_release_of(i)

\* the handler returns to its caller: the request was carried out and no
\* connection is held (the Cosmos DB handlers never held one). Of the
\* save_state calls the one that returned last is marked
complete ==
    \E i \in Tasks :
        /\ tasks[i].pc = "carried_out" /\ ~tasks[i].conn
        /\ tasks' = [j \in Tasks |->
               IF j = i
               THEN [Finished(tasks[i], "returned") EXCEPT
                       !.pc = "returned",
                       !.latest = tasks[i].call.op = "save_state"]
               ELSE [tasks[j] EXCEPT
                       !.latest = @ /\ tasks[i].call.op # "save_state"]]
        /\ UNCHANGED <<driver, store, now, last, first_insert, handle, signal,
                       backend, peer, factory, workflow, self_container, initializing, deleting, paging>>

\* the task is cancelled while it awaits its request or the reply:
\* CancelledError is raised there and takes the way out through the `async
\* with` block. A request the backend has not carried out yet may or may not
\* be carried out
cancel ==
    \E i \in Tasks :
        /\ tasks[i].pc \in {"in_flight", "matched", "carried_out"}
        /\ \E st \in {store} \cup
                      (IF \/ tasks[i].pc = "carried_out"
                          \/ Paged(tasks[i].call.op, tasks[i].call.thread_id,
                                   tasks[i].call.checkpoint_id)
                       THEN {}
                       ELSE {out.store : out \in task_outcomes(tasks[i])}) :
              /\ store' = st
              /\ first_insert' = Inserted(st)
        /\ tasks' = [tasks EXCEPT
               ![i] = [Finished(tasks[i], "cancelled") EXCEPT !.pc = "cancelling"]]
        /\ UNCHANGED <<driver, now, last, handle, signal, backend, peer, factory, workflow, self_container, initializing, deleting, paging>>

\* the task is cancelled while it awaits the release of its connection, on
\* its way out of the `async with` block after the reply or after an earlier
\* cancellation. asyncio.shield keeps the release from being cancelled, not
\* the task from being interrupted: CancelledError is raised in the task at
\* once and leaves the handler, the release goes on in the background and
\* the connection is checked out until it is through
cancel_at_release ==
    \E i \in Tasks :
        /\ tasks[i].conn
        /\ tasks[i].pc \in {"carried_out", "cancelling"}
        /\ tasks' = [tasks EXCEPT
               ![i] = [Finished(tasks[i], "cancelled") EXCEPT
                         !.pc = "cancelled", !.conn = FALSE, !.background = TRUE,
                         !.signal = raising("CancelledError")]]
        /\ UNCHANGED <<driver, store, now, last, first_insert, handle, signal,
                       backend, peer, factory, workflow, self_container, initializing, deleting, paging>>

\* CancelledError leaves the handler after the exit of the `async with`
\* block has released the connection (the Cosmos DB handlers hold none): the
\* except clause decides what the caller gets
raise_cancelled ==
    \E i \in Tasks :
        /\ tasks[i].pc = "cancelling" /\ ~tasks[i].conn
        /\ tasks' = [tasks EXCEPT
               ![i].pc = "cancelled", ![i].signal = raising("CancelledError")]
        /\ UNCHANGED <<driver, store, now, last, first_insert, handle, signal,
                       backend, peer, factory, workflow, self_container, initializing, deleting, paging>>

NextTasks ==
    \/ begin("save_state")
    \/ begin("load_state")
    \/ begin("list_checkpoints")
    \/ begin("delete_state")
    \/ merge_match
    \/ carry_out
    \/ release
    \/ complete
    \/ cancel
    \/ cancel_at_release
    \/ raise_cancelled

\* concurrent calls on one initialized instance
SpecTasks == Init /\ [][NextTasks]_vars

\* the event loop runs every release that is under way to its end, whatever
\* the other tasks do: a release is a coroutine of its own (the shielded
\* future), not a step of the task that was cancelled
SpecTasksFair ==
    /\ Init /\ [][NextTasks]_vars
    /\ \A i \in Tasks : WF_vars(release_of(i)) /\ WF_vars(shielded_release_of(i))

\* an instance as its constructor leaves it
InitConstructed ==
    /\ driver \in Drivers
    /\ store = EmptyBag
    /\ now = 1
    /\ last = NoCall
    /\ first_insert = [k \in SaveKeys |-> 0]
    /\ handle = 0
    /\ signal = "returned"
    /\ backend = Constructed
    /\ peer = NoPeer
    /\ tasks = [i \in Tasks |-> IdleTask]
    /\ factory = NoFactory
    /\ workflow = NoRun
    /\ self_container = 0
    /\ initializing = EmptyBag
    /\ deleting = EmptyBag
    /\ paging = EmptyBag

\* the whole life of an instance: initialize, the calls in any state, close
NextLifecycle ==
    \/ initialize(FALSE)
    \/ initialize(TRUE)
    \/ initialize_create(FALSE)
    \/ initialize_create(TRUE)
    \/ close
    \/ save_state_among(LifecycleKeys, LifecyclePayloads)
    \/ load_state_among(LifecycleThreads)
    \/ list_checkpoints_among(LifecycleThreads)
    \/ delete_state_among(LifecycleThreads)
    \/ save_state_unusable(LifecycleKeys, LifecyclePayloads)
    \/ load_state_unusable(LifecycleThreads)
    \/ list_checkpoints_unusable(LifecycleThreads)
    \/ delete_state_unusable(LifecycleThreads)
    \/ delete_item(FALSE, "returned")
    \/ delete_item_unusable
    \/ query_items_page(FALSE, "returned")
    \/ query_items_page_unusable

SpecLifecycle == InitConstructed /\ [][NextLifecycle]_vars

\* calls on several threads of one initialized instance, within one tick of
\* the clock
NextThreads ==
    \/ save_state_among(IsolatedKeys, IsolatedPayloads)
    \/ load_state_among(IsolatedThreads)
    \/ list_checkpoints_among(IsolatedThreads)
    \/ delete_state_among(IsolatedThreads)
    \/ delete_item(FALSE, "returned")
    \/ query_items_page(FALSE, "returned")

SpecThreads == Init /\ [][NextThreads]_vars

\* the process before any instance exists, its environment set or not
InitFactory ==
    /\ driver = "none"
    /\ store = EmptyBag
    /\ now = 1
    /\ last = NoCall
    /\ first_insert = [k \in SaveKeys |-> 0]
    /\ handle = 0
    /\ signal = "returned"
    /\ backend = Constructed
    /\ peer = NoPeer
    /\ tasks = [i \in Tasks |-> IdleTask]
    /\ \E environ \in Environs : factory = [NoFactory EXCEPT !.environ = environ]
    /\ workflow = NoRun
    /\ self_container = 0
    /\ initializing = EmptyBag
    /\ deleting = EmptyBag
    /\ paging = EmptyBag

\* create_state_persistence(connection_string, table_name): an instance is
\* made and returned, or ValueError is raised and none is made
create_state_persistence ==
    \E connection_string \in ConnectionStringArguments,
       table_name \in TableNameArguments :
      \E result \in {create_state_persistence_results[
                         <<factory.environ, connection_string, table_name>>]} :
        \E made \in {IF result.raised
                     THEN [instances |-> factory.instances, index |-> 0]
                     ELSE new_instance(factory.instances, result.value)} :
          /\ result.raised \/ Len(factory.instances) < MaxInstances
          /\ factory' =
               [factory EXCEPT
                  !.instances = made.instances,
                  !.call = [op |-> "create_state_persistence",
                            connection_string |-> connection_string,
                            table_name |-> table_name,
                            raised |-> result.raised,
                            message |-> result.message,
                            instance |-> made.index]]
          /\ UNCHANGED <<driver, store, now, last, first_insert, handle, signal,
                         backend, peer, tasks, workflow, self_container, initializing, deleting, paging>>

\* initialize() on one of the instances made. made: asyncpg.create_pool(...)
\* / CosmosClient(...) / create_async_engine(...) gives the instance a pool
\* (client, engine) of its own, also when it has one from an earlier
\* initialize(), which stays open; MaxPools are created in all. When it is
\* not made the call raises before the assignment and self.pool /
\* self.engine keeps what it referred to. raised: the call raises, in
\* making the pool or, with the pool assigned, in creating the schema (no
\* try block around either, and the Cosmos DB handler raises again what it
\* catches)
instance_initialize(made, raised) ==
    \E i \in 1..Len(factory.instances) :
        /\ made \in creates(factory.instances[i])
        /\ ~made => raised
        /\ made => factory.pools < MaxPools
        /\ factory' = [factory EXCEPT
                         !.pools = IF made THEN @ + 1 ELSE @,
                         !.instances[i].pool =
                             IF made THEN factory.pools + 1 ELSE @,
                         !.call = [NoFactoryCall EXCEPT !.op = "initialize",
                                                        !.instance = i,
                                                        !.raised = raised]]
        /\ UNCHANGED <<driver, store, now, last, first_insert, handle, signal,
                       backend, peer, tasks, workflow, self_container, initializing, deleting, paging>>

NextFactory ==
    \/ create_state_persistence
    \/ instance_initialize(TRUE, FALSE)
    \/ instance_initialize(TRUE, TRUE)
    \/ instance_initialize(FALSE, TRUE)

SpecFactory == InitFactory /\ [][NextFactory]_vars

\* a process that has built the workflow graph and not run it
InitWorkflow ==
    /\ driver = "none"
    /\ store = EmptyBag
    /\ now = 1
    /\ last = NoCall
    /\ first_insert = [k \in SaveKeys |-> 0]
    /\ handle = 0
    /\ signal = "returned"
    /\ backend = Constructed
    /\ peer = NoPeer
    /\ tasks = [i \in Tasks |-> IdleTask]
    /\ factory = NoFactory
    /\ workflow = NoRun
    /\ self_container = 0
    /\ initializing = EmptyBag
    /\ deleting = EmptyBag
    /\ paging = EmptyBag

\* app.invoke(initial_state, config): the run starts at the entry point
invoke ==
    \E document_content \in InitialDocuments :
        /\ workflow.status = "idle"
        /\ workflow' = [status |-> "running",
                        next |-> next_node("__start__", initial_state(document_content)),
                        step |-> 0, revisions |-> 0,
                        values |-> initial_state(document_content)]
        /\ UNCHANGED <<driver, store, now, last, first_insert, handle, signal,
                       backend, peer, tasks, factory, self_container, initializing,
                   deleting, paging>>

\* workflow.add_node(name, function): what the node's function makes of the
\* state v, llm.invoke answering `response` where the function asks it
node_function(node, v, response) ==
    CASE node = "initialize"       -> initialize_workflow(v)
      [] node = "analyze"          -> analyze_document(v, response)
      [] node = "quality_check"    -> parallel_analysis_quality(v, response)
      [] node = "compliance_check" -> parallel_analysis_compliance(v, response)
      [] node = "security_check"   -> parallel_analysis_security(v, response)
      [] node = "merge_results"    -> merge_parallel_results(v)
      [] node = "request_approval" -> request_human_approval(v)
      [] node = "process_decision" -> process_approval_decision(v)
      [] node = "revise"           -> handle_revision(v, response)
      [] node = "finalize"         -> finalize_workflow(v)

\* one super-step: the node that is due runs and leaves its state, and the
\* edges choose the node that follows; the run is over at END. When a node is
\* due after recursion_limit super-steps, invoke raises GraphRecursionError.
\* llm.invoke answers where the node asks it (node_raises is the call that
\* does not)
super_step ==
    /\ workflow.status = "running"
    /\ \E response \in LlmResponses :
      \E v \in {node_function(workflow.next, workflow.values, response)} :
        /\ workflow' =
             IF workflow.step >= recursion_limit
             THEN [workflow EXCEPT !.status = "out_of_steps"]
             ELSE [status |-> IF next_node(workflow.next, v) = "__end__"
                              THEN "done" ELSE "running",
                   next |-> next_node(workflow.next, v),
                   step |-> workflow.step + 1,
                   revisions |-> workflow.revisions
                                   + (IF workflow.next = "revise" THEN 1 ELSE 0),
                   values |-> v]
        /\ UNCHANGED <<driver, store, now, last, first_insert, handle, signal,
                       backend, peer, tasks, factory, self_container, initializing,
                       deleting, paging>>

\* the node that is due calls the language model and the call raises (no
\* API key, the service refuses or cannot be reached): the exception leaves
\* the node and app.invoke, and the run is over where it stands
node_raises ==
    /\ workflow.status = "running"
    /\ workflow.next \in LlmNodes
    /\ workflow.step < recursion_limit
    /\ workflow' = [workflow EXCEPT !.status = "raised"]
    /\ UNCHANGED <<driver, store, now, last, first_insert, handle, signal,
                   backend, peer, tasks, factory, self_container, initializing,
                   deleting, paging>>

NextWorkflow ==
    \/ invoke
    \/ super_step
    \/ node_raises

\* app.invoke returns when the run is over: a run that is under way takes
\* its next super-step
SpecWorkflow == InitWorkflow /\ [][NextWorkflow]_vars /\ WF_vars(super_step)

----------------------------------------------------------------------------
(* What a caller sees when the backend answers                             *)

\* the results load_state can return
Loaded(thread_id, checkpoint_id) ==
    {out.doc : out \in load_state_outcomes(thread_id, checkpoint_id, FALSE)}

\* the results list_checkpoints can return
Listed(thread_id, limit) ==
    {out.docs : out \in list_checkpoints_outcomes(thread_id, limit, FALSE)}

\* this step is a call of op (the clock stands still during a call)
IsCall(op) == now' = now /\ last'.op = op

----------------------------------------------------------------------------
(* Properties *)

\* C1: in every driver the store holds at most one document per
\* (thread_id, checkpoint_id) pair after any sequence of save_state and
\* delete_state calls; a save_state on an existing pair overwrites in place.
C1_OneDocumentPerKey ==
    \A thread_id \in ThreadIds, checkpoint_id \in CheckpointIds :
        BagCardinality(DocsOfKey(store, thread_id, checkpoint_id)) <= 1

\* a save_state has just succeeded on a pair the thread already held
C1_Witness ==
    /\ last.op = "save_state" /\ last.ok
    /\ last.checkpoint_id[1] \in last.prior
    /\ BagCardinality(DocsOfKey(store, last.thread_id, last.checkpoint_id[1])) = 1

\* C2: a document's created_at is set by the first save_state for its pair and
\* never changed by a later save_state: load_state returns the created_at of
\* the first insertion, whatever number of saves followed.
C2_CreatedAtOfFirstInsertion ==
    \A k \in SaveKeys :
        first_insert[k] # 0 =>
            \A doc \in Loaded(k[1], Some(k[2])) :
                doc # None /\ doc[1].created_at = first_insert[k]

\* C3: two save_state calls with the same pair and different state leave
\* exactly one document, with the state and metadata of the second call,
\* updated_at the second call's write time and created_at the first call's.
C3_SecondSaveOverwrites ==
    [][ ( /\ IsCall("save_state")
          /\ last.op = "save_state" /\ last.ok /\ last'.ok
          /\ last'.thread_id = last.thread_id
          /\ last'.checkpoint_id = last.checkpoint_id
          /\ last'.state # last.state )
        => /\ BagCardinality(DocsOfKey(store', last.thread_id,
                                       last.checkpoint_id[1])) = 1
           /\ \A doc \in Loaded(last.thread_id, last.checkpoint_id)' :
                /\ doc # None
                /\ doc[1].state = last'.state
                /\ doc[1].metadata = last'.metadata
                /\ doc[1].updated_at = now
                /\ doc[1].created_at =
                       first_insert[<<last.thread_id, last.checkpoint_id[1]>>]
      ]_vars

\* C4: a successful save_state with a metadata mapping (an empty mapping
\* included) followed by load_state with the same thread_id and checkpoint_id
\* returns a StateDocument whose state and metadata equal the saved values.
C4_SaveLoadRoundTrip ==
    (last.op = "save_state" /\ last.ok /\ last.metadata # None) =>
        \A doc \in Loaded(last.thread_id, last.checkpoint_id) :
            /\ doc # None
            /\ doc[1].state = last.state
            /\ doc[1].metadata = last.metadata

\* C5: a document saved with no metadata (None) comes back from load_state
\* and list_checkpoints with metadata None, not with an empty mapping.
C5_AbsentMetadataStaysAbsent ==
    (last.op = "save_state" /\ last.ok /\ last.metadata = None) =>
        /\ \A doc \in Loaded(last.thread_id, last.checkpoint_id) :
               doc # None /\ doc[1].metadata = None
        /\ \A limit \in Limits : \A docs \in Listed(last.thread_id, limit) :
               \A i \in 1..Len(docs) :
                   docs[i].checkpoint_id = last.checkpoint_id[1]
                       => docs[i].metadata = None

\* C6: load_state(thread_id) with no checkpoint_id returns the document of the
\* thread with the greatest created_at, which is the time of its first
\* insertion, also after older checkpoints were saved again; it returns
\* absent when the thread has no checkpoints.
C6_LoadLatest ==
    (last.op = "load_state" /\ last.checkpoint_id = None /\ ~last.fail) =>
        IF last.prior = {} THEN last.doc = None
        ELSE /\ last.doc # None
             /\ last.doc[1].thread_id = last.thread_id
             /\ last.doc[1].created_at =
                    first_insert[<<last.thread_id, last.doc[1].checkpoint_id>>]
             /\ \A c \in last.prior :
                    first_insert[<<last.thread_id, c>>] <=
                        first_insert[<<last.thread_id, last.doc[1].checkpoint_id>>]

\* C7: list_checkpoints(thread_id, limit=N) with N >= 0 returns at most N
\* documents, ordered by created_at descending, in every driver.
C7_ListAtMostLimitDescending ==
    (last.op = "list_checkpoints" /\ ~last.fail) =>
        /\ Len(last.docs) <= last.limit
        /\ \A i, j \in 1..Len(last.docs) :
               i < j => last.docs[i].created_at >= last.docs[j].created_at

\* C8: after delete_state(thread_id) with no checkpoint_id returned true, no
\* document of the thread remains: list_checkpoints returns an empty sequence
\* and load_state returns absent for each checkpoint_id the thread held.
C8_BulkDeleteEmptiesThread ==
    (last.op = "delete_state" /\ last.checkpoint_id = None /\ last.ok) =>
        /\ \A limit \in Limits : Listed(last.thread_id, limit) = {<<>>}
        /\ \A c \in last.prior : Loaded(last.thread_id, Some(c)) = {None}
        /\ Loaded(last.thread_id, None) = {None}

\* C9: delete_state(thread_id, checkpoint_id) for a key that does not exist
\* returns true and leaves every other checkpoint of the thread untouched.
C9_DeleteMissingKeyIsNoOp ==
    [][ ( /\ IsCall("delete_state")
          /\ last'.checkpoint_id # None /\ ~last'.fail
          /\ DocsOfKey(store, last'.thread_id, last'.checkpoint_id[1]) = EmptyBag )
        => last'.ok /\ store' = store
      ]_vars

\* C10: when a checkpoint_id is given to delete_state (any string, the empty
\* string included) at most the document with exactly that pair is removed;
\* every other document, of this and of other threads, is left unchanged.
C10_KeyedDeleteFrame ==
    [][ ( IsCall("delete_state") /\ last'.checkpoint_id # None )
        => /\ \A d \in DOMAIN store' : CopiesIn(d, store') <= CopiesIn(d, store)
           /\ \A d \in DOMAIN store :
                  ( d.thread_id # last'.thread_id
                    \/ d.checkpoint_id # last'.checkpoint_id[1] )
                      => CopiesIn(d, store') = CopiesIn(d, store)
      ]_vars

\* C11: when a checkpoint_id is given to load_state (any string, the empty
\* string included) the result is the document with exactly that
\* (thread_id, checkpoint_id) pair or absent, never another checkpoint's.
C11_KeyedLoadExact ==
    (last.op = "load_state" /\ last.checkpoint_id # None /\ last.doc # None) =>
        /\ last.doc[1].thread_id = last.thread_id
        /\ last.doc[1].checkpoint_id = last.checkpoint_id[1]

\* C12: in every driver save_state and delete_state never raise on a failure
\* of the backend or of the call itself: a failing call returns false, and a
\* call that returned true has taken effect in the store (the saved pair is
\* stored, the deleted pair or thread is gone).
C12_WritesReturnBooleans ==
    last.op \in {"save_state", "delete_state"} =>
        /\ signal = "returned"
        /\ last.fail => ~last.ok
        /\ last.ok =>
              IF last.op = "save_state"
              THEN DocsOfKey(store, last.thread_id, last.checkpoint_id[1]) # EmptyBag
              ELSE IF last.checkpoint_id # None
              THEN DocsOfKey(store, last.thread_id, last.checkpoint_id[1]) = EmptyBag
              ELSE DocsOfThread(store, last.thread_id) = EmptyBag

\* C13: load_state returns absent only when no matching document exists; when
\* the backend fails during load_state the caller gets an error, not absent.
C13_LoadAbsentMeansNoDocument ==
    last.op = "load_state" =>
        /\ last.fail => signal # "returned"
        /\ (signal = "returned" /\ last.doc = None) =>
              IF last.checkpoint_id # None
              THEN DocsOfKey(store, last.thread_id, last.checkpoint_id[1]) = EmptyBag
              ELSE DocsOfThread(store, last.thread_id) = EmptyBag

\* C14: list_checkpoints returns an empty sequence exactly when the thread has
\* no documents or limit is 0; a backend failure during list_checkpoints
\* reaches the caller as an error, never as an empty sequence.
C14_ListEmptyMeansNoDocuments ==
    last.op = "list_checkpoints" =>
        /\ last.fail => signal # "returned"
        /\ signal = "returned" =>
              ( last.docs = <<>> <=>
                  (DocsOfThread(store, last.thread_id) = EmptyBag \/ last.limit = 0) )

\* C15: an instance goes Uninitialized -> Initialized -> Closed, and
\* save_state, load_state, list_checkpoints and delete_state called before
\* initialize() or after close() signal an error to the caller instead of
\* returning a normal result (false, absent or an empty list).
C15_CallsNeedInitialized ==
    [][ /\ state_of(handle)' # state_of(handle) =>
              <<state_of(handle), state_of(handle)'>> \in
                  {<<"none", "open">>, <<"open", "closed">>}
        /\ \A op \in {"save_state", "load_state", "list_checkpoints", "delete_state"} :
              (IsCall(op) /\ state_of(handle) # "open") => signal' # "returned"
      ]_vars

\* C16: close() is a safe no-op when initialize() was never called and when
\* the instance is closed already: it raises no error, and no pool, client
\* or engine is asked to close or dispose a second time (none that is closed
\* already receives a close() or dispose() call).
C16_CloseIsSafeNoOp ==
    /\ [][ (IsCall("close") /\ state_of(handle) # "open") =>
              /\ signal' = "returned"
              /\ UNCHANGED <<handle, store>>
        ]_vars
    /\ [](~backend.reclosed)

\* C17: initialize() is idempotent: a second or later call on an instance,
\* its requests answered by the backend, raises no error and leaves the
\* schema that one call creates (each table, container, constraint and index
\* once) and the stored documents.
C17_InitializeIdempotent ==
    [][ IsCall("initialize") /\ ~last'.fail /\ last'.handle = "open" =>
            /\ signal' = "returned"
            /\ backend'.schema = initialize_schema(EmptyBag)
            /\ \A object \in DOMAIN backend'.schema : backend'.schema[object] = 1
            /\ store' = store
      ]_vars

\* initialize() has returned on an instance that was initialized before and
\* holds documents
C17_Witness ==
    /\ last.op = "initialize" /\ ~last.fail /\ last.handle = "open"
    /\ signal = "returned"
    /\ Len(backend.clients) >= 2
    /\ store # EmptyBag

\* C18: the three drivers behave alike: for every sequence of save_state,
\* load_state, list_checkpoints and delete_state calls made on two drivers
\* from empty stores, each call returns the same on both (boolean, presence
\* of a document, checkpoint ids, state, metadata, order of timestamps).
C18_DriversAgree == peer.agree

\* C19: when two save_state calls for the same (thread_id, checkpoint_id) run
\* concurrently on one instance, after both completed exactly one document
\* exists for the key, its state is that of the write that completed last,
\* and neither call failed because of the other.
C19_ConcurrentSavesLastWins ==
    \A i, j \in Tasks :
        ( /\ i # j
          /\ tasks[i].pc = "returned" /\ tasks[j].pc = "returned"
          /\ tasks[i].call.op = "save_state" /\ tasks[j].call.op = "save_state"
          /\ tasks[i].call.thread_id = tasks[j].call.thread_id
          /\ tasks[i].call.checkpoint_id = tasks[j].call.checkpoint_id
          /\ tasks[i].overlapped /\ tasks[j].overlapped
          /\ tasks[i].latest )
        => /\ tasks[i].ok /\ tasks[j].ok
           /\ BagCardinality(DocsOfKey(store, tasks[i].call.thread_id,
                                       tasks[i].call.checkpoint_id[1])) = 1
           /\ \A d \in Loaded(tasks[i].call.thread_id, tasks[i].call.checkpoint_id) :
                  d # None /\ d[1].state = tasks[i].call.state

----------------------------------------------------------------------------
(* Properties of create_state_persistence *)

\* the three patterns of connection strings, read case-insensitively, for
\* each connection string at hand (worked out once)
Patterns ==
    [cs \in ConnectionStrings |->
        [postgres |-> \/ startswith(lower(cs), postgresql_scheme)
                      \/ startswith(lower(cs), postgres_scheme),
         account |-> /\ contains(lower(cs), accountendpoint)
                     /\ contains(lower(cs), accountkey),
         sqlserver |-> \/ contains(lower(cs), mssql)
                       \/ contains(lower(cs), sqlserver)]] @@ <<>>

BeginsWithPostgresScheme(cs) == Patterns[cs].postgres
HasBothAccountMarkers(cs) == Patterns[cs].account
HasSQLServerMarker(cs) == Patterns[cs].sqlserver

\* the connection string a call is to work with: the explicit argument when
\* it supplies one, the value of DATABASE_CONNECTION_STRING otherwise
Supplied(c) ==
    IF OptTruthy(c.connection_string) THEN c.connection_string
    ELSE factory.environ.DATABASE_CONNECTION_STRING

\* the last step was a call of the factory that had a connection string
FactoryCalled(c) == c.op = "create_state_persistence" /\ OptTruthy(Supplied(c))

\* the message names the three supported formats
NamesSupportedSchemes(message) ==
    \A format \in { "Cosmos DB (AccountEndpoint=...), ",
                    "PostgreSQL (postgresql://...), ",
                    "SQL Server (mssql+pyodbc://...)" } :
        \E i \in 1..Len(message) : message[i] = format

\* C21: for every connection string that begins, in any letter case, with
\* postgresql:// or postgres://, whatever follows, create_state_persistence
\* returns a PostgreSQL driver instance.
C21_PostgresSchemeGivesPostgreSQL ==
    LET c == factory.call
    IN  FactoryCalled(c) /\ BeginsWithPostgresScheme(Supplied(c)[1])
        => /\ ~c.raised
           /\ factory.instances[c.instance].class = "postgresql"

\* C22: for every connection string that contains, in any letter case, both
\* the account-endpoint and the account-key marker, create_state_persistence
\* returns a Cosmos DB driver instance: the constructor never rejects a
\* string the classification took for Cosmos DB.
C22_AccountMarkersGiveCosmosDB ==
    LET c == factory.call
    IN  FactoryCalled(c) /\ HasBothAccountMarkers(Supplied(c)[1])
        => /\ ~c.raised
           /\ factory.instances[c.instance].class = "cosmosdb"

\* C23: for every connection string that matches none of the three patterns,
\* create_state_persistence raises the error whose message names the three
\* supported formats, and makes no instance.
C23_UnmatchedIsUnsupported ==
    [][\A c \in {factory'.call} :
         /\ c.op = "create_state_persistence"
         /\ OptTruthy(Supplied(c))
         /\ \A cs \in {Supplied(c)[1]} :
                /\ ~HasBothAccountMarkers(cs)
                /\ ~BeginsWithPostgresScheme(cs)
                /\ ~HasSQLServerMarker(cs)
         => /\ c.raised
            /\ NamesSupportedSchemes(c.message)
            /\ factory'.instances = factory.instances]_vars

\* an unsupported string was refused in a process that holds an instance
C23_Witness ==
    /\ factory.call.op = "create_state_persistence"
    /\ factory.call.connection_string = Some(PostgresNotAtStart)
    /\ factory.call.raised /\ factory.call.message = UnableToDetectMessage
    /\ Len(factory.instances) = 1

\* C24: create_state_persistence works with the explicit connection_string
\* when one is given and with DATABASE_CONNECTION_STRING otherwise; it raises
\* the no-connection-string error exactly when neither supplies one.
C24_ExplicitThenEnvironment ==
    LET c == factory.call
        env == factory.environ.DATABASE_CONNECTION_STRING
    IN  c.op = "create_state_persistence"
        => /\ (c.raised /\ c.message = NoConnectionStringMessage)
                <=> (~OptTruthy(c.connection_string) /\ ~OptTruthy(env))
           /\ ~c.raised
                => factory.instances[c.instance].connection_string = Supplied(c)[1]

\* C25: create_state_persistence is deterministic and stateless: every call
\* that returns hands out a new instance, which has no pool yet, and leaves
\* the instances made before as they are; instances made from the same
\* connection string and table name are of the same class; no two instances
\* hold the same pool.
C25_FreshInstancePerCall ==
    [][LET c == factory'.call
       IN  /\ c.op = "create_state_persistence" /\ ~c.raised
             => /\ c.instance = Len(factory.instances) + 1
                /\ factory'.instances[c.instance].pool = 0
                /\ \A i \in 1..Len(factory.instances) :
                     /\ factory'.instances[i] = factory.instances[i]
                     /\ (/\ factory.instances[i].connection_string
                              = factory'.instances[c.instance].connection_string
                         /\ factory.instances[i].table_name
                              = factory'.instances[c.instance].table_name)
                        => factory.instances[i].class
                             = factory'.instances[c.instance].class
           /\ \A i, j \in 1..Len(factory'.instances) :
                i # j /\ factory'.instances[i].pool # 0
                  => factory'.instances[i].pool # factory'.instances[j].pool]_vars

\* two instances made from the same connection string and table name, both
\* initialized
C25_Witness ==
    \E i, j \in 1..Len(factory.instances) :
        /\ i # j
        /\ factory.instances[i].connection_string = factory.instances[j].connection_string
        /\ factory.instances[i].table_name = factory.instances[j].table_name
        /\ factory.instances[i].pool # 0 /\ factory.instances[j].pool # 0

----------------------------------------------------------------------------
(* Properties of keys and threads *)

\* the documents of every pair but (thread_id, checkpoint_id)
DocsOfOtherKeys(st, thread_id, checkpoint_id) ==
    BagFilter(st, LAMBDA d : ~(d.thread_id = thread_id
                               /\ d.checkpoint_id = checkpoint_id))

\* the documents of every thread but thread_id
DocsOfOtherThreads(st, thread_id) ==
    BagFilter(st, LAMBDA d : d.thread_id # thread_id)

\* C26: in the Cosmos DB driver, for all thread and checkpoint ids (ids with
\* '_' in them included), save_state and delete_state for a pair leave the
\* documents of every other pair as they are, and load_state for a pair
\* returns no document of another pair.
C26_CosmosIdKeepsPairsApart ==
    [][driver = "cosmosdb" /\ last'.checkpoint_id # None
       => /\ last'.op \in {"save_state", "delete_state"}
             => DocsOfOtherKeys(store', last'.thread_id, last'.checkpoint_id[1])
                  = DocsOfOtherKeys(store, last'.thread_id, last'.checkpoint_id[1])
          /\ last'.op = "load_state" /\ last'.doc # None
             => /\ last'.doc[1].thread_id = last'.thread_id
                /\ last'.doc[1].checkpoint_id = last'.checkpoint_id[1]]_vars

\* C27: threads are isolated: save_state and delete_state on a thread (each
\* delete_item of a bulk delete included) leave the documents of every other
\* thread as they are, and load_state and list_checkpoints for a thread
\* return documents of that thread only, whatever calls on other threads ran
\* between the page requests of their query.
C27_ThreadsIsolated ==
    [][/\ last'.op \in {"save_state", "delete_state", "delete_item"}
          => DocsOfOtherThreads(store', last'.thread_id)
               = DocsOfOtherThreads(store, last'.thread_id)
       /\ last'.op = "load_state" /\ last'.doc # None
          => last'.doc[1].thread_id = last'.thread_id
       /\ last'.op = "list_checkpoints"
          => \A i \in 1..Len(last'.docs) :
                 last'.docs[i].thread_id = last'.thread_id
       /\ \A q \in BagToSet(paging') :
             \A i \in 1..Len(q.items) : q.items[i].thread_id = q.thread_id]_vars

\* the Cosmos DB driver has listed the thread  a' OR '1'='1  with limit 1 and
\* returned its two checkpoints, read in two pages, while the thread  a
\* holds a checkpoint too
C27_Witness ==
    /\ driver = "cosmosdb"
    /\ last.op = "list_checkpoints" /\ last.thread_id = InjectedThread
    /\ last.limit = 1 /\ Len(last.docs) = 2
    /\ DocsOfThread(store, PlainThread) # EmptyBag

\* C28: a save_state or delete_state call that returns false has left the
\* stored documents as they were; a bulk delete_state(thread_id) that returns
\* false has removed none of the thread's documents.
C28_FalseMeansUnchanged ==
    [][last'.op \in {"save_state", "delete_state"} /\ ~last'.ok
       => /\ store' = store
          /\ \A d \in BagToSet(deleting) :
                deleting' = deleting (-) SetToBag({d}) => ~d.removed]_vars

\* C29: after close() returns, no pool, engine or client that the instance
\* created is still open, whatever calls came before, initialize() called
\* more than once included.
C29_CloseLeavesNothingOpen ==
    last.op = "close" =>
        \A k \in DOMAIN backend.clients : backend.clients[k] = "closed"

----------------------------------------------------------------------------
(* Properties of the lab06 workflow graph *)

\* C30: every run of the lab06 stateful workflow graph ends at the finalize
\* node with current_step = "completed", and the revise node runs at most 3
\* times in a run (revision_count never exceeds 3), whatever approval
\* decision process_decision records.
C30_RunEndsAtFinalize ==
    /\ [](/\ workflow.revisions <= 3
          /\ workflow.values.revision_count <= 3
          /\ workflow.status \notin {"idle", "running"}
             => /\ workflow.status = "done"
                /\ workflow.next = "__end__"
                /\ workflow.values.current_step = <<"completed">>)
    /\ (workflow.status = "running" ~> workflow.status = "done")

====
